---- MODULE Spec2Model ----
(***************************************************************************)
(* Resource-reservation ledger of the autoscaling scheduler plugin:        *)
(* the per-node and per-pod ledgers (pkg/plugin/state.go), the resource    *)
(* transitioner that moves them (resourceTransitioner), and the dispatch   *)
(* entry points that apply the transitions under the plugin lock.          *)
(***************************************************************************)
EXTENDS Integers, Sequences, FiniteSets, TLC

VARIABLES nodeMap, podMap, otherPods, panicked, env, seen, verdict, snap,
          lock, proc, audit, pstate, slot, call, books

vars == <<nodeMap, podMap, otherPods, panicked, env, seen, verdict, snap,
          lock, proc, audit, pstate, slot, call, books>>
\* the plugin lock and the goroutines that contend for it, and the fields of
\* pluginState that hydration reads and writes besides nodeMap
lockVars == <<lock, proc, audit, pstate>>
\* one transitioner, bound to a node slot and a pod slot, and its last call
unitVars == <<slot, call>>

(***************************************************************************)
(* Universe and bounds                                                     *)
(***************************************************************************)
Nodes == {"n1"}
VMPods == {"vm1", "vm2"}
OtherPods == {"o1"}
Res == {"vCPU", "memSlots"}

\* the numbers of compute units a VM spec or an agent request asks for
Units == {1, 2}
\* largest usage (per resource) reported for a VM outside of autoscaling
MaxUsage == 1
\* largest load average an agent reports
MaxLoad == 2

\* ledger quantities are uint16
W16 == 65536

\* configured compute unit: the factor of handleRequested for each resource
ComputeUnit == [vCPU |-> 1, memSlots |-> 2]
\* per-node configuration of each resource
NodeConf == [vCPU |-> [Total |-> 3, System |-> 1, Watermark |-> 2],
             memSlots |-> [Total |-> 6, System |-> 1, Watermark |-> 4]]
\* bytes per memory slot, and the raw amounts a non-VM pod may carry
\* (CPU in millicores, memory in bytes)
MemSlotSize == 2
OtherShapes == {[rawCpu |-> 500, rawMemory |-> 3], [rawCpu |-> 1500, rawMemory |-> 2]}
\* the bounds a limits update may set (min, max per resource)
LimitShapes == {[min |-> [vCPU |-> 1, memSlots |-> 2], max |-> [vCPU |-> 3, memSlots |-> 6]],
                [min |-> [vCPU |-> 1, memSlots |-> 2], max |-> [vCPU |-> 1, memSlots |-> 3]]}
Loads == 1..MaxLoad

\* the workloads explored: the pods that get placed, the VM pods whose
\* usage is reported to change outside of autoscaling, and the bounds that
\* limits updates set.  Two VM pods share a node that cannot hold both at
\* their maximum; one VM pod shares it with a non-VM pod, with usage changes
\* or with limits updates.
Envs == {[vmPods |-> {"vm1", "vm2"}, otherPods |-> {}, usageChanges |-> {},
          limits |-> {l \in LimitShapes : l.max.vCPU = 3}],
         [vmPods |-> {"vm1"}, otherPods |-> {"o1"}, usageChanges |-> {"vm1"},
          limits |-> {}],
         [vmPods |-> {"vm1"}, otherPods |-> {"o1"}, usageChanges |-> {},
          limits |-> LimitShapes]}

NoMetrics == <<>>
NoPod == "-"

(***************************************************************************)
(* uint16 arithmetic                                                       *)
(***************************************************************************)
Add16(a, b) == (a + b) % W16
Sub16(a, b) == (a - b + W16) % W16
SaturatingSub(a, b) == IF a > b THEN a - b ELSE 0
Max(a, b) == IF a > b THEN a ELSE b

(***************************************************************************)
(* Resource transitioner: each operator takes st = [node, pod], the two    *)
(* slots the transitioner is bound to, and returns the slots after the     *)
(* call.                                                                   *)
(***************************************************************************)
\* handleLastPermit that lowers the reservation and leaves the buffer in
handleLastPermit_bufferKept(st, lastPermit) ==
    IF lastPermit <= st.pod.Reserved
    THEN [node |-> [st.node EXCEPT !.Reserved = Sub16(@, Sub16(st.pod.Reserved, lastPermit))],
          pod |-> [st.pod EXCEPT !.Reserved = lastPermit]]
    ELSE [node |-> st.node, pod |-> st.pod]

\* handleLastPermit that takes a larger permit as the new reservation
handleLastPermit_raises(st, lastPermit) ==
    LET n1 == [st.node EXCEPT !.Reserved = Sub16(@, Sub16(st.pod.Reserved, lastPermit))]
        p1 == [st.pod EXCEPT !.Reserved = lastPermit]
    IN IF p1.Buffer # 0
       THEN [node |-> [n1 EXCEPT !.Buffer = Sub16(@, p1.Buffer)],
             pod |-> [p1 EXCEPT !.Buffer = 0]]
       ELSE [node |-> n1, pod |-> p1]

handleLastPermit(st, lastPermit) ==
    IF lastPermit <= st.pod.Reserved
    THEN LET n1 == [st.node EXCEPT !.Reserved = Sub16(@, Sub16(st.pod.Reserved, lastPermit))]
             p1 == [st.pod EXCEPT !.Reserved = lastPermit]
         IN IF p1.Buffer # 0
            THEN [node |-> [n1 EXCEPT !.Buffer = Sub16(@, p1.Buffer)],
                  pod |-> [p1 EXCEPT !.Buffer = 0]]
            ELSE [node |-> n1, pod |-> p1]
    ELSE [node |-> st.node, pod |-> st.pod]

\* clearBuffer with the node's buffer left as it was
clearBuffer_nodeKeeps(st) ==
    IF st.pod.Buffer # 0
    THEN [node |-> st.node, pod |-> [st.pod EXCEPT !.Buffer = 0]]
    ELSE st

\* clearBuffer that gives the buffer back to the node and leaves it in the pod
clearBuffer_podKeeps(st) ==
    IF st.pod.Buffer # 0
    THEN [node |-> [st.node EXCEPT !.Buffer = Sub16(@, st.pod.Buffer)], pod |-> st.pod]
    ELSE st

\* the shared tail of handleRequested: any pod buffer is given back
clearBuffer(st) ==
    IF st.pod.Buffer # 0
    THEN [node |-> [st.node EXCEPT !.Buffer = Sub16(@, st.pod.Buffer)],
          pod |-> [st.pod EXCEPT !.Buffer = 0]]
    ELSE st

\* handleRequested whose capped increase adds the new pressure to the node
\* and leaves the pod's earlier pressure in
handleRequested_pressureStacks(st, requested, startingMigration, factor) ==
    LET totalReservable == st.node.Total
        remainingReservable == SaturatingSub(totalReservable, st.node.Reserved)
    IN
    IF requested <= st.pod.Reserved
    THEN LET n1 == [st.node EXCEPT
                        !.Reserved = Sub16(@, Sub16(st.pod.Reserved, requested)),
                        !.CapacityPressure = Sub16(@, st.pod.CapacityPressure)]
             p1 == [st.pod EXCEPT !.Reserved = requested, !.CapacityPressure = 0]
             r == clearBuffer([node |-> n1, pod |-> p1])
         IN [node |-> r.node, pod |-> r.pod, path |-> "decrease", panic |-> FALSE]
    ELSE IF startingMigration
    THEN LET cp == Sub16(requested, st.pod.Reserved)
             p1 == [st.pod EXCEPT !.CapacityPressure = cp]
             n1 == [st.node EXCEPT
                        !.CapacityPressure = Sub16(Add16(@, cp), st.pod.CapacityPressure)]
         IN [node |-> n1, pod |-> p1, path |-> "migrating", panic |-> (st.pod.Buffer # 0)]
    ELSE LET increase == Sub16(requested, st.pod.Reserved)
             maxIncrease == (remainingReservable \div factor) * factor
             capped == increase > maxIncrease
             cp == IF capped THEN Sub16(increase, maxIncrease) ELSE 0
             granted == IF capped THEN maxIncrease ELSE increase
             n1 == [st.node EXCEPT
                        !.CapacityPressure =
                            IF capped
                            THEN Add16(@, cp)
                            ELSE Sub16(@, st.pod.CapacityPressure),
                        !.Reserved = Add16(@, granted)]
             p1 == [st.pod EXCEPT !.CapacityPressure = cp,
                                  !.Reserved = Add16(@, granted)]
             r == clearBuffer([node |-> n1, pod |-> p1])
         IN [node |-> r.node, pod |-> r.pod,
             path |-> IF capped THEN "capped" ELSE "full", panic |-> FALSE]

\* handleRequested whose remainder is a plain uint16 subtraction
handleRequested_wrappingRemainder(st, requested, startingMigration, factor) ==
    LET totalReservable == st.node.Total
        remainingReservable == Sub16(totalReservable, st.node.Reserved)
    IN
    IF requested <= st.pod.Reserved
    THEN LET n1 == [st.node EXCEPT
                        !.Reserved = Sub16(@, Sub16(st.pod.Reserved, requested)),
                        !.CapacityPressure = Sub16(@, st.pod.CapacityPressure)]
             p1 == [st.pod EXCEPT !.Reserved = requested, !.CapacityPressure = 0]
             r == clearBuffer([node |-> n1, pod |-> p1])
         IN [node |-> r.node, pod |-> r.pod, path |-> "decrease", panic |-> FALSE]
    ELSE IF startingMigration
    THEN LET cp == Sub16(requested, st.pod.Reserved)
             p1 == [st.pod EXCEPT !.CapacityPressure = cp]
             n1 == [st.node EXCEPT
                        !.CapacityPressure = Sub16(Add16(@, cp), st.pod.CapacityPressure)]
         IN [node |-> n1, pod |-> p1, path |-> "migrating", panic |-> (st.pod.Buffer # 0)]
    ELSE LET increase == Sub16(requested, st.pod.Reserved)
             maxIncrease == (remainingReservable \div factor) * factor
             capped == increase > maxIncrease
             cp == IF capped THEN Sub16(increase, maxIncrease) ELSE 0
             granted == IF capped THEN maxIncrease ELSE increase
             n1 == [st.node EXCEPT
                        !.CapacityPressure =
                            IF capped
                            THEN Add16(Sub16(@, st.pod.CapacityPressure), cp)
                            ELSE Sub16(@, st.pod.CapacityPressure),
                        !.Reserved = Add16(@, granted)]
             p1 == [st.pod EXCEPT !.CapacityPressure = cp,
                                  !.Reserved = Add16(@, granted)]
             r == clearBuffer([node |-> n1, pod |-> p1])
         IN [node |-> r.node, pod |-> r.pod,
             path |-> IF capped THEN "capped" ELSE "full", panic |-> FALSE]

\* result: the slots after the call, the branch taken and whether the
\* call panicked ("r.pod.buffer != 0")
\* handleRequested whose decrease leaves the pod's pressure standing
handleRequested_pressureLeft(st, requested, startingMigration, factor) ==
    LET totalReservable == st.node.Total
        remainingReservable == SaturatingSub(totalReservable, st.node.Reserved)
    IN
    IF requested <= st.pod.Reserved
    THEN LET n1 == [st.node EXCEPT
                        !.Reserved = Sub16(@, Sub16(st.pod.Reserved, requested)),
                        !.CapacityPressure = Sub16(@, st.pod.CapacityPressure)]
             p1 == [st.pod EXCEPT !.Reserved = requested]
             r == clearBuffer([node |-> n1, pod |-> p1])
         IN [node |-> r.node, pod |-> r.pod, path |-> "decrease", panic |-> FALSE]
    ELSE IF startingMigration
    THEN LET cp == Sub16(requested, st.pod.Reserved)
             p1 == [st.pod EXCEPT !.CapacityPressure = cp]
             n1 == [st.node EXCEPT
                        !.CapacityPressure = Sub16(Add16(@, cp), st.pod.CapacityPressure)]
         IN [node |-> n1, pod |-> p1, path |-> "migrating", panic |-> (st.pod.Buffer # 0)]
    ELSE LET increase == Sub16(requested, st.pod.Reserved)
             maxIncrease == (remainingReservable \div factor) * factor
             capped == increase > maxIncrease
             cp == IF capped THEN Sub16(increase, maxIncrease) ELSE 0
             granted == IF capped THEN maxIncrease ELSE increase
             n1 == [st.node EXCEPT
                        !.CapacityPressure =
                            IF capped
                            THEN Add16(Sub16(@, st.pod.CapacityPressure), cp)
                            ELSE Sub16(@, st.pod.CapacityPressure),
                        !.Reserved = Add16(@, granted)]
             p1 == [st.pod EXCEPT !.CapacityPressure = cp,
                                  !.Reserved = Add16(@, granted)]
             r == clearBuffer([node |-> n1, pod |-> p1])
         IN [node |-> r.node, pod |-> r.pod,
             path |-> IF capped THEN "capped" ELSE "full", panic |-> FALSE]

handleRequested(st, requested, startingMigration, factor) ==
    LET totalReservable == st.node.Total
        remainingReservable == SaturatingSub(totalReservable, st.node.Reserved)
    IN
    IF requested <= st.pod.Reserved
    THEN LET n1 == [st.node EXCEPT
                        !.Reserved = Sub16(@, Sub16(st.pod.Reserved, requested)),
                        !.CapacityPressure = Sub16(@, st.pod.CapacityPressure)]
             p1 == [st.pod EXCEPT !.Reserved = requested, !.CapacityPressure = 0]
             r == clearBuffer([node |-> n1, pod |-> p1])
         IN [node |-> r.node, pod |-> r.pod, path |-> "decrease", panic |-> FALSE]
    ELSE IF startingMigration
    THEN LET cp == Sub16(requested, st.pod.Reserved)
             p1 == [st.pod EXCEPT !.CapacityPressure = cp]
             n1 == [st.node EXCEPT
                        !.CapacityPressure = Sub16(Add16(@, cp), st.pod.CapacityPressure)]
         IN [node |-> n1, pod |-> p1, path |-> "migrating", panic |-> (st.pod.Buffer # 0)]
    ELSE LET increase == Sub16(requested, st.pod.Reserved)
             maxIncrease == (remainingReservable \div factor) * factor
             capped == increase > maxIncrease
             cp == IF capped THEN Sub16(increase, maxIncrease) ELSE 0
             granted == IF capped THEN maxIncrease ELSE increase
             n1 == [st.node EXCEPT
                        !.CapacityPressure =
                            IF capped
                            THEN Add16(Sub16(@, st.pod.CapacityPressure), cp)
                            ELSE Sub16(@, st.pod.CapacityPressure),
                        !.Reserved = Add16(@, granted)]
             p1 == [st.pod EXCEPT !.CapacityPressure = cp,
                                  !.Reserved = Add16(@, granted)]
             r == clearBuffer([node |-> n1, pod |-> p1])
         IN [node |-> r.node, pod |-> r.pod,
             path |-> IF capped THEN "capped" ELSE "full", panic |-> FALSE]

\* handleDeleted without its buffer branch
handleDeleted_bufferStays(st, currentlyMigrating) ==
    LET n1 == [st.node EXCEPT
                   !.Reserved = Sub16(@, st.pod.Reserved),
                   !.CapacityPressure = Sub16(@, st.pod.CapacityPressure)]
    IN IF currentlyMigrating
       THEN [n1 EXCEPT !.PressureAccountedFor =
                 Sub16(@, Add16(st.pod.Reserved, st.pod.CapacityPressure))]
       ELSE n1

\* handleDeleted that takes the pod's reservation off the node's Total as well
handleDeleted_totalShrinks(st, currentlyMigrating) ==
    LET n1 == [st.node EXCEPT
                   !.Reserved = Sub16(@, st.pod.Reserved),
                   !.Total = Sub16(@, st.pod.Reserved),
                   !.CapacityPressure = Sub16(@, st.pod.CapacityPressure)]
        n2 == IF currentlyMigrating
              THEN [n1 EXCEPT !.PressureAccountedFor =
                        Sub16(@, Add16(st.pod.Reserved, st.pod.CapacityPressure))]
              ELSE n1
    IN IF st.pod.Buffer # 0
       THEN [n2 EXCEPT !.Buffer = Sub16(@, st.pod.Buffer)]
       ELSE n2

\* the pod slot is left as it was; the result is the node slot
handleDeleted(st, currentlyMigrating) ==
    LET n1 == [st.node EXCEPT
                   !.Reserved = Sub16(@, st.pod.Reserved),
                   !.CapacityPressure = Sub16(@, st.pod.CapacityPressure)]
        n2 == IF currentlyMigrating
              THEN [n1 EXCEPT !.PressureAccountedFor =
                        Sub16(@, Add16(st.pod.Reserved, st.pod.CapacityPressure))]
              ELSE n1
    IN IF st.pod.Buffer # 0
       THEN [n2 EXCEPT !.Buffer = Sub16(@, st.pod.Buffer)]
       ELSE n2

\* handleNonAutoscalingUsageChange that only ever adds to the node
handleNonAutoscalingUsageChange_unsigned(st, newUsage) ==
    LET diff == IF newUsage >= st.pod.Reserved THEN newUsage - st.pod.Reserved ELSE 0
    IN [node |-> [st.node EXCEPT !.Reserved = Add16(@, diff)],
        pod |-> [st.pod EXCEPT !.Reserved = newUsage]]

handleNonAutoscalingUsageChange(st, newUsage) ==
    LET diff == Sub16(newUsage, st.pod.Reserved)
    IN [node |-> [st.node EXCEPT !.Reserved = Add16(@, diff)],
        pod |-> [st.pod EXCEPT !.Reserved = newUsage]]

handleAutoscalingDisabled(st) ==
    LET buffer == st.pod.Buffer
    IN [node |-> [st.node EXCEPT
                      !.Reserved = Sub16(@, buffer),
                      !.Buffer = Sub16(@, buffer),
                      !.CapacityPressure = Sub16(@, st.pod.CapacityPressure)],
        pod |-> [st.pod EXCEPT
                      !.Reserved = Sub16(@, buffer),
                      !.Buffer = Sub16(@, buffer),
                      !.CapacityPressure = 0]]

\* handleStartMigration that counts the pod's reservation with its buffer
handleStartMigration_bufferCounted(st) ==
    LET d == handleAutoscalingDisabled(st)
    IN [node |-> [d.node EXCEPT !.PressureAccountedFor = Add16(@, st.pod.Reserved)],
        pod |-> d.pod]

handleStartMigration(st) ==
    LET buffer == st.pod.Buffer
        p1 == [st.pod EXCEPT
                   !.Reserved = Sub16(@, buffer),
                   !.Buffer = Sub16(@, buffer),
                   !.CapacityPressure = 0]
    IN [node |-> [st.node EXCEPT
                      !.Reserved = Sub16(@, buffer),
                      !.Buffer = Sub16(@, buffer),
                      !.CapacityPressure = Sub16(@, st.pod.CapacityPressure),
                      !.PressureAccountedFor = Add16(@, p1.Reserved)],
        pod |-> p1]

\* handleUpdatedLimits that gives the pod its new buffer and the node none
handleUpdatedLimits_nodeBufferStays(st, receivedContact, newMin, newMax) ==
    IF newMin = st.pod.Min /\ newMax = st.pod.Max
    THEN st
    ELSE LET updateBuffer == ~receivedContact /\ st.pod.Max # newMax
             using == Sub16(st.pod.Reserved, st.pod.Buffer)
             newReserved == Max(newMax, using)
             newBuffer == Sub16(newReserved, using)
             p1 == IF updateBuffer
                   THEN [st.pod EXCEPT !.Reserved = newReserved, !.Buffer = newBuffer]
                   ELSE st.pod
             n1 == IF updateBuffer
                   THEN [st.node EXCEPT
                            !.Reserved = Sub16(Add16(@, newReserved), st.pod.Reserved)]
                   ELSE st.node
         IN [node |-> n1, pod |-> [p1 EXCEPT !.Min = newMin, !.Max = newMax]]

\* handleUpdatedLimits that reserves the new maximum even below what is used
handleUpdatedLimits_belowUsing(st, receivedContact, newMin, newMax) ==
    IF newMin = st.pod.Min /\ newMax = st.pod.Max
    THEN st
    ELSE LET updateBuffer == ~receivedContact /\ st.pod.Max # newMax
             using == Sub16(st.pod.Reserved, st.pod.Buffer)
             newBuffer == Sub16(newMax, using)
             p1 == IF updateBuffer
                   THEN [st.pod EXCEPT !.Reserved = newMax, !.Buffer = newBuffer]
                   ELSE st.pod
             n1 == IF updateBuffer
                   THEN [st.node EXCEPT
                            !.Reserved = Sub16(Add16(@, newMax), st.pod.Reserved),
                            !.Buffer = Sub16(Add16(@, newBuffer), st.pod.Buffer)]
                   ELSE st.node
         IN [node |-> n1, pod |-> [p1 EXCEPT !.Min = newMin, !.Max = newMax]]

\* handleUpdatedLimits that rebuilds the buffer on any change of the limits
handleUpdatedLimits_anyChange(st, receivedContact, newMin, newMax) ==
    IF newMin = st.pod.Min /\ newMax = st.pod.Max
    THEN st
    ELSE LET updateBuffer == ~receivedContact
             using == Sub16(st.pod.Reserved, st.pod.Buffer)
             newReserved == Max(newMax, using)
             newBuffer == Sub16(newReserved, using)
             p1 == IF updateBuffer
                   THEN [st.pod EXCEPT !.Reserved = newReserved, !.Buffer = newBuffer]
                   ELSE st.pod
             n1 == IF updateBuffer
                   THEN [st.node EXCEPT
                            !.Reserved = Sub16(Add16(@, newReserved), st.pod.Reserved),
                            !.Buffer = Sub16(Add16(@, newBuffer), st.pod.Buffer)]
                   ELSE st.node
         IN [node |-> n1, pod |-> [p1 EXCEPT !.Min = newMin, !.Max = newMax]]

handleUpdatedLimits(st, receivedContact, newMin, newMax) ==
    IF newMin = st.pod.Min /\ newMax = st.pod.Max
    THEN st
    ELSE LET updateBuffer == ~receivedContact /\ st.pod.Max # newMax
             using == Sub16(st.pod.Reserved, st.pod.Buffer)
             newReserved == Max(newMax, using)
             newBuffer == Sub16(newReserved, using)
             p1 == IF updateBuffer
                   THEN [st.pod EXCEPT !.Reserved = newReserved, !.Buffer = newBuffer]
                   ELSE st.pod
             n1 == IF updateBuffer
                   THEN [st.node EXCEPT
                            !.Reserved = Sub16(Add16(@, newReserved), st.pod.Reserved),
                            !.Buffer = Sub16(Add16(@, newBuffer), st.pod.Buffer)]
                   ELSE st.node
         IN [node |-> n1, pod |-> [p1 EXCEPT !.Min = newMin, !.Max = newMax]]

(***************************************************************************)
(* Non-VM pods: raw sums of a node and their rounded-up equivalents.       *)
(* CPU is kept in millicores, memory in bytes.                             *)
(***************************************************************************)
\* resource.Quantity.Value(): the amount rounded up to a whole unit
MilliValue(milli) == IF milli >= 0 THEN (milli + 999) \div 1000 ELSE -((-milli) \div 1000)
\* Go's integer division truncates towards zero
GoDiv(a, b) == IF a >= 0 THEN a \div b ELSE -((-a) \div b)

\* result: the state with its reserved amounts set, and whether the call
\* panicked ("new reserved mem slots overflows uint16")
calculateReserved(r) ==
    LET newReservedMemSlots == GoDiv(r.rawMemory + MemSlotSize - 1, MemSlotSize)
    IN [state |-> [rawCpu |-> r.rawCpu, rawMemory |-> r.rawMemory,
                   reservedCpu |-> MilliValue(r.rawCpu) % W16,
                   reservedMemSlots |-> newReservedMemSlots % W16],
        panic |-> newReservedMemSlots > W16 - 1]

addPod(r, p) ==
    calculateReserved([rawCpu |-> r.rawCpu + p.rawCpu,
                       rawMemory |-> r.rawMemory + p.rawMemory,
                       reservedCpu |-> 0, reservedMemSlots |-> 0])

subPod(r, p) ==
    IF r.rawCpu < p.rawCpu
    THEN [state |-> r, panic |-> TRUE]
    ELSE IF r.rawMemory < r.rawMemory
    THEN [state |-> r, panic |-> TRUE]
    ELSE calculateReserved([rawCpu |-> r.rawCpu - p.rawCpu,
                            rawMemory |-> r.rawMemory - p.rawMemory,
                            reservedCpu |-> 0, reservedMemSlots |-> 0])

\* getOrFetchNodeState: the whole cores and the memory slots of a node with
\* cpuMilli millicores and memBytes bytes; err when it returns an error and
\* installs no node
nodeTotals(cpuMilli, memBytes) ==
    LET maxCPU == GoDiv(cpuMilli, 1000) % W16
        totalSlots == GoDiv(memBytes, MemSlotSize)
    IN [err |-> totalSlots > W16 - 1, cpuMilli |-> cpuMilli, memBytes |-> memBytes,
        maxCPU |-> maxCPU, totalSlots |-> totalSlots % W16]

(***************************************************************************)
(* Node helpers                                                            *)
(***************************************************************************)
totalReservable(n, res) == Sub16(n[res].Total, n[res].System)
remainingReservable(n, res) == Sub16(totalReservable(n, res), n[res].Reserved)

tooMuchPressure(n) ==
    IF n.vCPU.Reserved <= n.vCPU.Watermark /\ n.memSlots.Reserved < n.memSlots.Watermark
    THEN FALSE
    ELSE LET logicalCpuPressure == Sub16(n.vCPU.Reserved, n.vCPU.Watermark)
             logicalMemPressure == Sub16(n.memSlots.Reserved, n.memSlots.Watermark)
             tooMuchCpu == Add16(logicalCpuPressure, n.vCPU.CapacityPressure)
                               > n.vCPU.PressureAccountedFor
             tooMuchMem == Add16(logicalMemPressure, n.memSlots.CapacityPressure)
                               > n.memSlots.PressureAccountedFor
         IN tooMuchCpu \/ tooMuchMem

currentlyMigrating(pod) == pod.migrationState

(***************************************************************************)
(* Migration queue: a binary heap of pod names ordered by                  *)
(* isBetterMigrationTarget; slot i of the heap is q[i + 1].                *)
(***************************************************************************)
isBetterMigrationTarget(pm, s, other) == pm[s].metrics[1] < pm[other].metrics[1]

mqSwap(q, i, j) == [q EXCEPT ![i + 1] = q[j + 1], ![j + 1] = q[i + 1]]

RECURSIVE mqUp(_, _, _)
mqUp(pm, q, j) ==
    IF j = 0
    THEN q
    ELSE LET i == (j - 1) \div 2
         IN IF ~isBetterMigrationTarget(pm, q[j + 1], q[i + 1])
            THEN q
            ELSE mqUp(pm, mqSwap(q, i, j), i)

RECURSIVE mqDown(_, _, _, _)
mqDown(pm, q, i, n) ==
    LET j1 == 2 * i + 1
        j2 == j1 + 1
        j == IF j2 < n /\ isBetterMigrationTarget(pm, q[j2 + 1], q[j1 + 1]) THEN j2 ELSE j1
    IN IF j1 >= n
       THEN q
       ELSE IF ~isBetterMigrationTarget(pm, q[j + 1], q[i + 1])
       THEN q
       ELSE mqDown(pm, mqSwap(q, i, j), j, n)

mqFix(pm, q, i) ==
    LET d == mqDown(pm, q, i, Len(q))
    IN IF d # q THEN d ELSE mqUp(pm, q, i)

mqPush(pm, q, p) == mqUp(pm, Append(q, p), Len(q))

mqRemove(pm, q, i) ==
    LET n == Len(q) - 1
        q1 == IF n # i THEN mqSwap(q, i, n) ELSE q
        d == mqDown(pm, q1, i, n)
        q2 == IF n = i THEN q1 ELSE IF d # q1 THEN d ELSE mqUp(pm, q1, i)
    IN SubSeq(q2, 1, n)

addOrUpdate(pm, q, p) ==
    IF pm[p].mqIndex = -1 THEN mqPush(pm, q, p) ELSE mqFix(pm, q, pm[p].mqIndex)

removeIfPresent(pm, q, p) ==
    IF pm[p].mqIndex = -1 THEN q ELSE mqRemove(pm, q, pm[p].mqIndex)

InQueue(q, p) == \E i \in 1..Len(q) : q[i] = p
SlotOf(q, p) == (CHOOSE i \in 1..Len(q) : q[i] = p) - 1

\* the heap's Swap, Push and Pop keep the index of every pod they move:
\* its slot while it is queued, -1 once it has been popped
setIndexes(pm, q, q2) ==
    [p \in DOMAIN pm |->
        IF InQueue(q2, p)
        THEN [pm[p] EXCEPT !.mqIndex = SlotOf(q2, p)]
        ELSE IF InQueue(q, p)
        THEN [pm[p] EXCEPT !.mqIndex = -1]
        ELSE pm[p]]

(***************************************************************************)
(* Plugin state                                                            *)
(*                                                                         *)
(* nodeMap, podMap, otherPods: the maps of pluginState.                    *)
(* panicked: "none" while the process runs, else the panic that ended it.  *)
(* env: the workload of this run.  seen: the pod names placed so far (a    *)
(* pod name is not placed twice).                                          *)
(* verdict: what the last agent request was answered, per resource; reset  *)
(* by every other event.                                                   *)
(* snap: for the round trips, see below.                                   *)
(* lock, proc, audit: the plugin lock (Free or the goroutine holding it),  *)
(* where each goroutine stands in its handler, and what was installed and  *)
(* reserved so far; they move in SpecLock only.                            *)
(* slot, call: a transitioner's slots and its last call; they move in      *)
(* SpecUnit only.                                                          *)
(***************************************************************************)
AllPods == VMPods \cup OtherPods

NoPath == [vCPU |-> "-", memSlots |-> "-"]
NoVerdict == [pod |-> NoPod, path |-> NoPath,
              hadBuffer |-> [vCPU |-> FALSE, memSlots |-> FALSE],
              hadPressure |-> [vCPU |-> FALSE, memSlots |-> FALSE]]

\* the node entry getOrFetchNodeState installs
newNodeState ==
    [vCPU |-> [Total |-> NodeConf.vCPU.Total, System |-> NodeConf.vCPU.System,
               Watermark |-> NodeConf.vCPU.Watermark, Reserved |-> 0, Buffer |-> 0,
               CapacityPressure |-> 0, PressureAccountedFor |-> 0],
     memSlots |-> [Total |-> NodeConf.memSlots.Total, System |-> NodeConf.memSlots.System,
                   Watermark |-> NodeConf.memSlots.Watermark, Reserved |-> 0, Buffer |-> 0,
                   CapacityPressure |-> 0, PressureAccountedFor |-> 0],
     pods |-> {}, otherPods |-> {},
     otherResources |-> [rawCpu |-> 0, rawMemory |-> 0, reservedCpu |-> 0,
                         reservedMemSlots |-> 0],
     mq |-> <<>>]

\* a quantity that a resource list does not hold, and the node status that a
\* goroutine holds before Nodes().Get has returned one
Nil == <<>>
NoStatus == [capacity |-> [cpu |-> Nil, mem |-> Nil], allocatable |-> [cpu |-> Nil, mem |-> Nil]]

\* getOrFetchNodeState, for one resource: the Capacity quantity if there is
\* one; else the Allocatable quantity if there is one and the configuration
\* lets it stand in; else an error
selectQuantity_alwaysFallsBack(capacity, allocatable, fallback) ==
    IF capacity # Nil THEN [err |-> FALSE, q |-> capacity]
    ELSE IF allocatable # Nil THEN [err |-> FALSE, q |-> allocatable]
    ELSE [err |-> TRUE, q |-> Nil]

selectQuantity(capacity, allocatable, fallback) ==
    IF capacity # Nil THEN [err |-> FALSE, q |-> capacity]
    ELSE IF allocatable # Nil
         THEN IF fallback THEN [err |-> FALSE, q |-> allocatable]
              ELSE [err |-> TRUE, q |-> Nil]
    ELSE [err |-> TRUE, q |-> Nil]

\* the nodeState that getOrFetchNodeState builds from a node status, or err
builtNode(status, fallback) ==
    LET cpuQ == selectQuantity(status.capacity.cpu, status.allocatable.cpu, fallback)
        memQ == selectQuantity(status.capacity.mem, status.allocatable.mem, fallback)
    IN IF cpuQ.err \/ memQ.err
       THEN [err |-> TRUE, node |-> newNodeState]
       ELSE LET t == nodeTotals(cpuQ.q[1], memQ.q[1])
            IN [err |-> t.err,
                node |-> [newNodeState EXCEPT !.vCPU.Total = t.maxCPU,
                                              !.memSlots.Total = t.totalSlots]]

\* the maxima after a node has been installed
withMaxima(g, node) ==
    [g EXCEPT !.maxTotalReservableCPU = Max(@, totalReservable(node, "vCPU")),
              !.maxTotalReservableMemSlots = Max(@, totalReservable(node, "memSlots"))]

Pair(a, b) == [vCPU |-> a, memSlots |-> b]

\* what a round trip has to restore: the ledgers and the non-VM sums
Books(n) == [vCPU |-> n.vCPU, memSlots |-> n.memSlots, otherResources |-> n.otherResources]
Pafs(n) == Pair(n.vCPU.PressureAccountedFor, n.memSlots.PressureAccountedFor)

\* snap[p] remembers the books of p's node from just before p was placed
\* (pre), and its PressureAccountedFor from just before p's migration
\* started (paf), for as long as every event since the placement was an
\* agent request of p, the start of p's migration or p's deletion.  phase
\* tells how far p got: "placed", "migrating", then "deleted" (never
\* migrated) or "deletedMigrating"; contact tells whether an agent request
\* was processed on the way.
NoSnap == [phase |-> "-", node |-> "-", pre |-> Books(newNodeState), paf |-> Pair(0, 0),
           contact |-> FALSE]
OnlyOf(p, s) == [x \in AllPods |-> IF x = p THEN s ELSE NoSnap]
NoSnaps == [x \in AllPods |-> NoSnap]
Placed(n, node) == [phase |-> "placed", node |-> n, pre |-> Books(node), paf |-> Pair(0, 0),
                    contact |-> FALSE]

St(n, pod, res) == [node |-> n[res], pod |-> pod[res]]

Put(f, k, v) == [x \in DOMAIN f \cup {k} |-> IF x = k THEN v ELSE f[x]]
Drop(f, k) == [x \in DOMAIN f \ {k} |-> f[x]]

\* the lock is free and no goroutine is in a handler
Free == "free"
Callers == {"c1", "c2"}
NoEntry == "-"
IdleProc == [pc |-> "idle", locked |-> FALSE, got |-> NoEntry, err |-> FALSE,
             status |-> NoStatus]
\* s.conf.FallbackToAllocatable and the two maxima of pluginState
NoMaxima == [FallbackToAllocatable |-> FALSE, maxTotalReservableCPU |-> 0,
             maxTotalReservableMemSlots |-> 0]
NoAudit == [fault |-> "none", installs |-> 0, owner |-> NoEntry, applied |-> 0]
LockIdle ==
    /\ lock = Free
    /\ proc = [c \in Callers |-> IdleProc]
    /\ audit = NoAudit
    /\ pstate = NoMaxima

\* the non-VM books of a node taken on their own: the state r, the last call
\* on it (the state it was given, the pod resources it was passed, whether it
\* panicked), the number of calls so far, and the totals of the last hydration
NoRaw == [rawCpu |-> 0, rawMemory |-> 0, reservedCpu |-> 0, reservedMemSlots |-> 0]
NoTotals == [err |-> FALSE, cpuMilli |-> 0, memBytes |-> 0, maxCPU |-> 0, totalSlots |-> 0]
NoBooks == [r |-> NoRaw, op |-> "-", given |-> NoRaw,
            arg |-> [rawCpu |-> 0, rawMemory |-> 0], panic |-> FALSE, calls |-> 0,
            totals |-> NoTotals]

\* no transitioner call has been made
NoSlot == [node |-> [Total |-> 0, System |-> 0, Reserved |-> 0, Buffer |-> 0,
                     CapacityPressure |-> 0, PressureAccountedFor |-> 0],
           pod |-> [Reserved |-> 0, Buffer |-> 0, CapacityPressure |-> 0,
                    Min |-> 0, Max |-> 0]]
NoCall == [op |-> "-", earlier |-> 0, before |-> NoSlot, amount |-> 0, flag |-> FALSE,
           factor |-> 1, newMin |-> 0, panic |-> FALSE]

PluginEmpty ==
    /\ nodeMap = [x \in {} |-> newNodeState]
    /\ podMap = [x \in {} |-> 0]
    /\ otherPods = [x \in {} |-> 0]
    /\ panicked = "none"
    /\ seen = {}
    /\ verdict = NoVerdict
    /\ snap = NoSnaps

Init ==
    /\ PluginEmpty
    /\ env \in Envs
    /\ LockIdle
    /\ slot = NoSlot
    /\ call = NoCall
    /\ books = NoBooks

(***************************************************************************)
(* Node hydration (the path of getOrFetchNodeState that installs an entry) *)
(***************************************************************************)
Hydrate(n) ==
    /\ panicked = "none"
    /\ UNCHANGED <<lock, proc, audit, unitVars, books>>
    /\ n \notin DOMAIN nodeMap
    /\ nodeMap' = Put(nodeMap, n, newNodeState)
    /\ pstate' = withMaxima(pstate, newNodeState)
    /\ verdict' = NoVerdict
    /\ snap' = NoSnaps
    /\ UNCHANGED <<podMap, otherPods, panicked, env, seen>>

(***************************************************************************)
(* VM placement: the pod ledger comes from the VM's spec (using, max, in   *)
(* compute units); a prior permit, when there is one, is replayed.  A pod  *)
(* is placed only where its reservation fits.                              *)
(***************************************************************************)
specLedger(res, using, max) ==
    [Reserved |-> max * ComputeUnit[res], Buffer |-> (max - using) * ComputeUnit[res],
     CapacityPressure |-> 0, Min |-> ComputeUnit[res], Max |-> max * ComputeUnit[res]]

PlaceVM(p, n, using, max, permit) ==
    LET node == nodeMap[n]
        led == [res \in Res |-> specLedger(res, using, max)]
        added == [res \in Res |->
                    [node[res] EXCEPT !.Reserved = Add16(@, led[res].Reserved),
                                      !.Buffer = Add16(@, led[res].Buffer)]]
        tr == [res \in Res |->
                 IF permit = 0
                 THEN [node |-> added[res], pod |-> led[res]]
                 ELSE handleLastPermit([node |-> added[res], pod |-> led[res]],
                                       permit * ComputeUnit[res])]
        pod == [node |-> n, vCPU |-> tr.vCPU.pod, memSlots |-> tr.memSlots.pod,
                metrics |-> NoMetrics, mqIndex |-> -1, migrationState |-> FALSE,
                receivedContact |-> FALSE]
    IN
    /\ panicked = "none"
    /\ UNCHANGED <<lockVars, unitVars, books>>
    /\ n \in DOMAIN nodeMap
    /\ p \in env.vmPods
    /\ p \notin DOMAIN podMap
    /\ p \notin seen
    /\ using <= max
    /\ \A res \in Res : led[res].Reserved <= SaturatingSub(node[res].Total, node[res].Reserved)
    /\ nodeMap' = [nodeMap EXCEPT ![n] = [node EXCEPT !.vCPU = tr.vCPU.node,
                                                      !.memSlots = tr.memSlots.node,
                                                      !.pods = @ \cup {p}]]
    /\ podMap' = Put(podMap, p, pod)
    /\ seen' = seen \cup {p}
    /\ verdict' = NoVerdict
    /\ snap' = OnlyOf(p, Placed(n, node))
    /\ UNCHANGED <<otherPods, panicked, env>>

(***************************************************************************)
(* Agent request: handleRequested for CPU then memory, then the metrics    *)
(* and the migration queue.  A pod that is migrating is starting its       *)
(* migration as far as handleRequested is concerned.                       *)
(***************************************************************************)
AgentRequest(p, units, load) ==
    LET pod == podMap[p]
        n == pod.node
        node == nodeMap[n]
        startingMigration == currentlyMigrating(pod)
        requested == [res \in Res |-> units * ComputeUnit[res]]
        tr == [res \in Res |->
                 handleRequested(St(node, pod, res), requested[res], startingMigration,
                                 ComputeUnit[res])]
        pod1 == [pod EXCEPT !.vCPU = tr.vCPU.pod, !.memSlots = tr.memSlots.pod,
                            !.metrics = <<load>>, !.receivedContact = TRUE]
        pm1 == [podMap EXCEPT ![p] = pod1]
        q2 == IF currentlyMigrating(pod1) THEN node.mq ELSE addOrUpdate(pm1, node.mq, p)
        paths == [res \in Res |->
                    IF requested[res] = pod[res].Reserved THEN "same" ELSE tr[res].path]
    IN
    /\ panicked = "none"
    /\ UNCHANGED <<lockVars, unitVars, books>>
    /\ p \in DOMAIN podMap
    /\ IF tr.vCPU.panic \/ tr.memSlots.panic
       THEN /\ panicked' = "buffer"
            /\ UNCHANGED <<nodeMap, podMap, otherPods, env, seen, verdict, snap>>
       ELSE /\ nodeMap' = [nodeMap EXCEPT ![n] = [node EXCEPT !.vCPU = tr.vCPU.node,
                                                             !.memSlots = tr.memSlots.node,
                                                             !.mq = q2]]
            /\ podMap' = setIndexes(pm1, node.mq, q2)
            /\ verdict' = [pod |-> p, path |-> paths,
                           hadBuffer |-> [res \in Res |-> pod[res].Buffer # 0],
                           hadPressure |-> [res \in Res |-> pod[res].CapacityPressure # 0]]
            /\ snap' = OnlyOf(p, IF snap[p].phase = "placed"
                                 THEN [snap[p] EXCEPT !.contact = TRUE]
                                 ELSE NoSnap)
            /\ UNCHANGED <<otherPods, panicked, env, seen>>

(***************************************************************************)
(* VM deletion                                                             *)
(***************************************************************************)
\* handleVMDeletion that leaves the migration queue alone
handleVMDeletion_queueKept(p) ==
    /\ panicked = "none"
    /\ UNCHANGED <<lockVars, unitVars, books>>
    /\ IF p \notin DOMAIN podMap
       THEN UNCHANGED vars
       ELSE LET pod == podMap[p]
                n == pod.node
                node == nodeMap[n]
                migrating == currentlyMigrating(pod)
            IN /\ nodeMap' = [nodeMap EXCEPT ![n] =
                      [node EXCEPT
                          !.vCPU = handleDeleted(St(node, pod, "vCPU"), migrating),
                          !.memSlots = handleDeleted(St(node, pod, "memSlots"), migrating),
                          !.pods = @ \ {p}]]
               /\ podMap' = Drop(podMap, p)
               /\ verdict' = NoVerdict
               /\ snap' = OnlyOf(p, IF snap[p].phase = "placed"
                                    THEN [snap[p] EXCEPT !.phase = "deleted"]
                                    ELSE IF snap[p].phase = "migrating"
                                    THEN [snap[p] EXCEPT !.phase = "deletedMigrating"]
                                    ELSE NoSnap)
               /\ UNCHANGED <<otherPods, panicked, env, seen>>

\* handleVMDeletion that treats a pod it cannot find as fatal
handleVMDeletion_missingFatal(p) ==
    /\ panicked = "none"
    /\ UNCHANGED <<lockVars, unitVars, books>>
    /\ IF p \notin DOMAIN podMap
       THEN /\ panicked' = "missing"
            /\ UNCHANGED <<nodeMap, podMap, otherPods, env, seen, verdict, snap>>
       ELSE LET pod == podMap[p]
                n == pod.node
                node == nodeMap[n]
                migrating == currentlyMigrating(pod)
                q2 == removeIfPresent(podMap, node.mq, p)
            IN /\ nodeMap' = [nodeMap EXCEPT ![n] =
                      [node EXCEPT
                          !.vCPU = handleDeleted(St(node, pod, "vCPU"), migrating),
                          !.memSlots = handleDeleted(St(node, pod, "memSlots"), migrating),
                          !.pods = @ \ {p},
                          !.mq = q2]]
               /\ podMap' = Drop(setIndexes(podMap, node.mq, q2), p)
               /\ verdict' = NoVerdict
               /\ snap' = NoSnaps
               /\ UNCHANGED <<otherPods, panicked, env, seen>>

handleVMDeletion(p) ==
    /\ panicked = "none"
    /\ UNCHANGED <<lockVars, unitVars, books>>
    /\ IF p \notin DOMAIN podMap
       THEN UNCHANGED vars
       ELSE LET pod == podMap[p]
                n == pod.node
                node == nodeMap[n]
                migrating == currentlyMigrating(pod)
                q2 == removeIfPresent(podMap, node.mq, p)
            IN /\ nodeMap' = [nodeMap EXCEPT ![n] =
                      [node EXCEPT
                          !.vCPU = handleDeleted(St(node, pod, "vCPU"), migrating),
                          !.memSlots = handleDeleted(St(node, pod, "memSlots"), migrating),
                          !.pods = @ \ {p},
                          !.mq = q2]]
               /\ podMap' = Drop(setIndexes(podMap, node.mq, q2), p)
               /\ verdict' = NoVerdict
               /\ snap' = OnlyOf(p, IF snap[p].phase = "placed"
                                    THEN [snap[p] EXCEPT !.phase = "deleted"]
                                    ELSE IF snap[p].phase = "migrating"
                                    THEN [snap[p] EXCEPT !.phase = "deletedMigrating"]
                                    ELSE NoSnap)
               /\ UNCHANGED <<otherPods, panicked, env, seen>>

(***************************************************************************)
(* Start of a migration                                                    *)
(***************************************************************************)
\* startMigration that marks the pod migrating where it sits in the queue
startMigration_stillQueued(p) ==
    LET pod == podMap[p]
        n == pod.node
        node == nodeMap[n]
    IN
    /\ panicked = "none"
    /\ UNCHANGED <<lockVars, unitVars, books>>
    /\ p \in DOMAIN podMap
    /\ IF currentlyMigrating(pod)
       THEN UNCHANGED vars
       ELSE /\ nodeMap' = [nodeMap EXCEPT ![n] =
                   [node EXCEPT
                       !.vCPU.PressureAccountedFor =
                           Add16(@, Add16(pod.vCPU.Reserved, pod.vCPU.CapacityPressure))]]
            /\ podMap' = [podMap EXCEPT ![p].migrationState = TRUE]
            /\ verdict' = NoVerdict
            /\ snap' = OnlyOf(p, IF snap[p].phase = "placed"
                                 THEN [snap[p] EXCEPT !.phase = "migrating",
                                                      !.paf = Pafs(node)]
                                 ELSE NoSnap)
            /\ UNCHANGED <<otherPods, panicked, env, seen>>

\* startMigration that does not look at the pod's migration state
startMigration_again(p) ==
    LET pod == podMap[p]
        n == pod.node
        node == nodeMap[n]
        q2 == removeIfPresent(podMap, node.mq, p)
        pm1 == setIndexes(podMap, node.mq, q2)
    IN
    /\ panicked = "none"
    /\ UNCHANGED <<lockVars, unitVars, books>>
    /\ p \in DOMAIN podMap
    /\ nodeMap' = [nodeMap EXCEPT ![n] =
           [node EXCEPT
               !.mq = q2,
               !.vCPU.PressureAccountedFor =
                   Add16(@, Add16(pod.vCPU.Reserved, pod.vCPU.CapacityPressure))]]
    /\ podMap' = [pm1 EXCEPT ![p].migrationState = TRUE]
    /\ verdict' = NoVerdict
    /\ snap' = OnlyOf(p, IF snap[p].phase = "placed"
                         THEN [snap[p] EXCEPT !.phase = "migrating",
                                              !.paf = Pafs(node)]
                         ELSE NoSnap)
    /\ UNCHANGED <<otherPods, panicked, env, seen>>

\* pluginState.startMigration; on a pod that is already migrating it
\* returns an error and touches nothing
startMigration(p) ==
    LET pod == podMap[p]
        n == pod.node
        node == nodeMap[n]
        q2 == removeIfPresent(podMap, node.mq, p)
        pm1 == setIndexes(podMap, node.mq, q2)
    IN
    /\ panicked = "none"
    /\ UNCHANGED <<lockVars, unitVars, books>>
    /\ p \in DOMAIN podMap
    /\ IF currentlyMigrating(pod)
       THEN UNCHANGED vars
       ELSE /\ nodeMap' = [nodeMap EXCEPT ![n] =
                   [node EXCEPT
                       !.mq = q2,
                       !.vCPU.PressureAccountedFor =
                           Add16(@, Add16(pod.vCPU.Reserved, pod.vCPU.CapacityPressure))]]
            /\ podMap' = [pm1 EXCEPT ![p].migrationState = TRUE]
            /\ verdict' = NoVerdict
            /\ snap' = OnlyOf(p, IF snap[p].phase = "placed"
                                 THEN [snap[p] EXCEPT !.phase = "migrating",
                                                      !.paf = Pafs(node)]
                                 ELSE NoSnap)
            /\ UNCHANGED <<otherPods, panicked, env, seen>>

\* the start-migration event of the dispatch table: leave the queue,
\* install the migration state, handleStartMigration on each resource
StartMigrationEvent(p) ==
    LET pod == podMap[p]
        n == pod.node
        node == nodeMap[n]
        q2 == removeIfPresent(podMap, node.mq, p)
        pm1 == setIndexes(podMap, node.mq, q2)
        tr == [res \in Res |-> handleStartMigration(St(node, pod, res))]
    IN
    /\ panicked = "none"
    /\ UNCHANGED <<lockVars, unitVars, books>>
    /\ p \in DOMAIN podMap
    /\ ~currentlyMigrating(pod)
    /\ nodeMap' = [nodeMap EXCEPT ![n] = [node EXCEPT !.mq = q2,
                                                      !.vCPU = tr.vCPU.node,
                                                      !.memSlots = tr.memSlots.node]]
    /\ podMap' = [pm1 EXCEPT ![p].migrationState = TRUE,
                             ![p].vCPU = tr.vCPU.pod,
                             ![p].memSlots = tr.memSlots.pod]
    /\ verdict' = NoVerdict
    /\ snap' = OnlyOf(p, IF snap[p].phase = "placed"
                         THEN [snap[p] EXCEPT !.phase = "migrating", !.paf = Pafs(node)]
                         ELSE NoSnap)
    /\ UNCHANGED <<otherPods, panicked, env, seen>>

(***************************************************************************)
(* Events that apply one transition to both resources of a pod             *)
(***************************************************************************)
AutoscalingDisabled(p) ==
    LET pod == podMap[p]
        n == pod.node
        node == nodeMap[n]
        tr == [res \in Res |-> handleAutoscalingDisabled(St(node, pod, res))]
    IN
    /\ panicked = "none"
    /\ UNCHANGED <<lockVars, unitVars, books>>
    /\ p \in DOMAIN podMap
    /\ nodeMap' = [nodeMap EXCEPT ![n] = [node EXCEPT !.vCPU = tr.vCPU.node,
                                                      !.memSlots = tr.memSlots.node]]
    /\ podMap' = [podMap EXCEPT ![p].vCPU = tr.vCPU.pod, ![p].memSlots = tr.memSlots.pod]
    /\ verdict' = NoVerdict
    /\ snap' = NoSnaps
    /\ UNCHANGED <<otherPods, panicked, env, seen>>

UpdatedLimits(p, limits) ==
    LET pod == podMap[p]
        n == pod.node
        node == nodeMap[n]
        tr == [res \in Res |->
                 handleUpdatedLimits(St(node, pod, res), pod.receivedContact,
                                     limits.min[res], limits.max[res])]
    IN
    /\ panicked = "none"
    /\ UNCHANGED <<lockVars, unitVars, books>>
    /\ p \in DOMAIN podMap
    /\ limits \in env.limits
    /\ nodeMap' = [nodeMap EXCEPT ![n] = [node EXCEPT !.vCPU = tr.vCPU.node,
                                                      !.memSlots = tr.memSlots.node]]
    /\ podMap' = [podMap EXCEPT ![p].vCPU = tr.vCPU.pod, ![p].memSlots = tr.memSlots.pod]
    /\ verdict' = NoVerdict
    /\ snap' = NoSnaps
    /\ UNCHANGED <<otherPods, panicked, env, seen>>

NonAutoscalingUsageChange(p, newUsage) ==
    LET pod == podMap[p]
        n == pod.node
        node == nodeMap[n]
        tr == [res \in Res |->
                 handleNonAutoscalingUsageChange(St(node, pod, res), newUsage[res])]
    IN
    /\ panicked = "none"
    /\ UNCHANGED <<lockVars, unitVars, books>>
    /\ p \in DOMAIN podMap
    /\ p \in env.usageChanges
    /\ nodeMap' = [nodeMap EXCEPT ![n] = [node EXCEPT !.vCPU = tr.vCPU.node,
                                                      !.memSlots = tr.memSlots.node]]
    /\ podMap' = [podMap EXCEPT ![p].vCPU = tr.vCPU.pod, ![p].memSlots = tr.memSlots.pod]
    /\ verdict' = NoVerdict
    /\ snap' = NoSnaps
    /\ UNCHANGED <<otherPods, panicked, env, seen>>

(***************************************************************************)
(* Non-VM pods                                                             *)
(***************************************************************************)
\* the rounded equivalents feed node.Reserved by their signed delta
withOtherResources(node, new) ==
    [node EXCEPT
        !.otherResources = new,
        !.vCPU.Reserved =
            Add16(@, Sub16(new.reservedCpu, node.otherResources.reservedCpu)),
        !.memSlots.Reserved =
            Add16(@, Sub16(new.reservedMemSlots, node.otherResources.reservedMemSlots))]

PlaceOther(o, n, shape) ==
    LET node == nodeMap[n]
        r == addPod(node.otherResources, shape)
        node1 == withOtherResources(node, r.state)
    IN
    /\ panicked = "none"
    /\ UNCHANGED <<lockVars, unitVars, books>>
    /\ n \in DOMAIN nodeMap
    /\ o \in env.otherPods
    /\ o \notin DOMAIN otherPods
    /\ o \notin seen
    /\ IF r.panic
       THEN /\ panicked' = "overflow"
            /\ UNCHANGED <<nodeMap, podMap, otherPods, env, seen, verdict, snap>>
       ELSE /\ node1.vCPU.Reserved <= node.vCPU.Total
            /\ node1.memSlots.Reserved <= node.memSlots.Total
            /\ nodeMap' = [nodeMap EXCEPT ![n] = [node1 EXCEPT !.otherPods = @ \cup {o}]]
            /\ otherPods' = Put(otherPods, o, [node |-> n, resources |-> shape])
            /\ seen' = seen \cup {o}
            /\ verdict' = NoVerdict
            /\ snap' = OnlyOf(o, Placed(n, node))
            /\ UNCHANGED <<podMap, panicked, env>>

handleDeletedPod(node, resources) ==
    LET r == subPod(node.otherResources, resources)
    IN [node |-> withOtherResources(node, r.state), panic |-> r.panic]

handlePodDeletion(o) ==
    /\ panicked = "none"
    /\ UNCHANGED <<lockVars, unitVars, books>>
    /\ IF o \notin DOMAIN otherPods
       THEN UNCHANGED vars
       ELSE LET pod == otherPods[o]
                n == pod.node
                r == handleDeletedPod(nodeMap[n], pod.resources)
            IN IF r.panic
               THEN /\ panicked' = "underflow"
                    /\ UNCHANGED <<nodeMap, podMap, otherPods, env, seen, verdict, snap>>
               ELSE /\ nodeMap' = [nodeMap EXCEPT ![n] = [r.node EXCEPT !.otherPods = @ \ {o}]]
                    /\ otherPods' = Drop(otherPods, o)
                    /\ verdict' = NoVerdict
                    /\ snap' = OnlyOf(o, IF snap[o].phase = "placed"
                                         THEN [snap[o] EXCEPT !.phase = "deleted"]
                                         ELSE NoSnap)
                    /\ UNCHANGED <<podMap, panicked, env, seen>>

(***************************************************************************)
(* Specification                                                           *)
(***************************************************************************)
Next ==
    \/ \E n \in Nodes : Hydrate(n)
    \/ \E p \in VMPods, n \in Nodes, using \in Units, max \in Units,
          permit \in {0} \cup Units : PlaceVM(p, n, using, max, permit)
    \/ \E p \in VMPods, units \in Units, load \in Loads : AgentRequest(p, units, load)
    \/ \E p \in VMPods : handleVMDeletion(p)
    \/ \E p \in VMPods : startMigration(p)
    \/ \E p \in VMPods : StartMigrationEvent(p)
    \/ \E p \in VMPods : AutoscalingDisabled(p)
    \/ \E p \in VMPods, l \in LimitShapes : UpdatedLimits(p, l)
    \/ \E p \in VMPods, u \in 1..MaxUsage : NonAutoscalingUsageChange(p, Pair(u, u))
    \/ \E o \in OtherPods, n \in Nodes, shape \in OtherShapes : PlaceOther(o, n, shape)
    \/ \E o \in OtherPods : handlePodDeletion(o)

Spec == Init /\ [][Next]_vars

(***************************************************************************)
(* getOrFetchNodeState under the plugin lock                               *)
(*                                                                         *)
(* Each goroutine runs a handler: it takes the lock, calls                 *)
(* getOrFetchNodeState for a node, reserves on the entry it got, and       *)
(* unlocks.  proc[c].pc is where goroutine c stands:                       *)
(*   idle      outside of a handler                                        *)
(*   entered   lock taken, about to call getOrFetchNodeState               *)
(*   fetching  inside, lock released, Nodes().Get under way                *)
(*   relock    Get succeeded, locked = true, at s.lock.Lock()              *)
(*   recheck   lock taken again, about to look the node up again           *)
(*   build     node still unknown, deriving its limits                     *)
(*   deferred  Get failed, in the deferred function                        *)
(*   returned  getOrFetchNodeState has returned (err tells how)            *)
(* audit counts the entries installed, names the goroutine that installed  *)
(* the entry of nodeMap, counts the reservations made, and keeps the first *)
(* misuse of the mutex.                                                    *)
(***************************************************************************)
lockRest == <<podMap, otherPods, panicked, env, seen, verdict, snap, unitVars, books>>

\* sync.Mutex: Lock waits for a free mutex, and never returns to a goroutine
\* that holds it; Unlock of an unlocked mutex is a fatal error
CanLock(c) == lock = Free \/ lock = c
faultAfterLock(c) ==
    IF audit.fault = "none" /\ lock = c THEN "lock of a mutex the goroutine holds"
    ELSE audit.fault
faultAfterUnlock ==
    IF audit.fault = "none" /\ lock = Free THEN "unlock of an unlocked mutex"
    ELSE audit.fault

\* a handler takes the lock and will ask for node n
Enter(c, n) ==
    /\ proc[c].pc = "idle"
    /\ CanLock(c)
    /\ lock' = c
    /\ proc' = [proc EXCEPT ![c] = [IdleProc EXCEPT !.pc = "entered"]]
    /\ audit' = [audit EXCEPT !.fault = faultAfterLock(c)]
    /\ UNCHANGED <<nodeMap, pstate, lockRest>>

\* first lookup: a known node is returned at once, else the lock is released
lookup(c, n) ==
    /\ proc[c].pc = "entered"
    /\ IF n \in DOMAIN nodeMap
       THEN /\ proc' = [proc EXCEPT ![c].pc = "returned", ![c].got = audit.owner]
            /\ UNCHANGED <<lock, audit>>
       ELSE /\ lock' = Free
            /\ audit' = [audit EXCEPT !.fault = faultAfterUnlock]
            /\ proc' = [proc EXCEPT ![c].pc = "fetching", ![c].locked = FALSE]
    /\ UNCHANGED <<nodeMap, pstate, lockRest>>

\* Nodes().Get returns an error (or the context is cancelled)
fetchFailed(c) ==
    /\ proc[c].pc = "fetching"
    /\ proc' = [proc EXCEPT ![c].pc = "deferred", ![c].err = TRUE]
    /\ UNCHANGED <<nodeMap, lock, audit, pstate, lockRest>>

\* the node statuses Nodes().Get may return: each of Capacity and Allocatable
\* holds the resource or does not (CPU in millicores, memory in bytes)
Statuses ==
    {[capacity |-> [cpu |-> a, mem |-> b], allocatable |-> [cpu |-> c, mem |-> d]] :
        a \in {Nil, <<3500>>}, b \in {Nil, <<13>>}, c \in {Nil, <<2900>>}, d \in {Nil, <<11>>}}

\* Nodes().Get returns the node
fetched(c, status) ==
    /\ proc[c].pc = "fetching"
    /\ proc' = [proc EXCEPT ![c].pc = "relock", ![c].locked = TRUE,
                            ![c].status = status]
    /\ UNCHANGED <<nodeMap, lock, audit, pstate, lockRest>>

relock(c) ==
    /\ proc[c].pc = "relock"
    /\ CanLock(c)
    /\ lock' = c
    /\ audit' = [audit EXCEPT !.fault = faultAfterLock(c)]
    /\ proc' = [proc EXCEPT ![c].pc = "recheck"]
    /\ UNCHANGED <<nodeMap, pstate, lockRest>>

\* an error return that leaves the mutex as the failed fetch left it
deferredLock_skipped(c) ==
    /\ proc[c].pc = "deferred"
    /\ proc' = [proc EXCEPT ![c].pc = "returned"]
    /\ UNCHANGED <<nodeMap, lock, audit, pstate, lockRest>>

\* the deferred function of the error return: if !locked { s.lock.Lock() }
deferredLock(c) ==
    /\ proc[c].pc = "deferred"
    /\ IF proc[c].locked
       THEN UNCHANGED <<lock, audit>>
       ELSE /\ CanLock(c)
            /\ lock' = c
            /\ audit' = [audit EXCEPT !.fault = faultAfterLock(c)]
    /\ proc' = [proc EXCEPT ![c].pc = "returned"]
    /\ UNCHANGED <<nodeMap, pstate, lockRest>>

\* a second lookup that never finds the node
recheck_blind(c, n) ==
    /\ proc[c].pc = "recheck"
    /\ proc' = [proc EXCEPT ![c].pc = "build"]
    /\ UNCHANGED <<nodeMap, lock, audit, pstate, lockRest>>

\* second lookup, under the lock again
recheck(c, n) ==
    /\ proc[c].pc = "recheck"
    /\ IF n \in DOMAIN nodeMap
       THEN proc' = [proc EXCEPT ![c].pc = "returned", ![c].got = audit.owner]
       ELSE proc' = [proc EXCEPT ![c].pc = "build"]
    /\ UNCHANGED <<nodeMap, lock, audit, pstate, lockRest>>

\* the node has no capacity to go by, or its limits cannot be computed
limitsError(c) ==
    /\ proc[c].pc = "build"
    /\ proc' = [proc EXCEPT ![c].pc = "returned", ![c].err = TRUE]
    /\ UNCHANGED <<nodeMap, lock, audit, pstate, lockRest>>

\* s.nodeMap[nodeName] = n
install(c, n) ==
    LET built == builtNode(proc[c].status, pstate.FallbackToAllocatable)
    IN /\ proc[c].pc = "build"
       /\ ~built.err
       /\ nodeMap' = Put(nodeMap, n, built.node)
       /\ pstate' = withMaxima(pstate, built.node)
       /\ audit' = [audit EXCEPT !.installs = @ + 1, !.owner = c]
       /\ proc' = [proc EXCEPT ![c].pc = "returned", ![c].got = c]
       /\ UNCHANGED <<lock, lockRest>>

\* the rest of the handler: reserve one vCPU on the entry if there is room,
\* then unlock
finish(c, n) ==
    /\ proc[c].pc = "returned"
    /\ IF ~proc[c].err /\ n \in DOMAIN nodeMap
          /\ nodeMap[n].vCPU.Reserved < nodeMap[n].vCPU.Total
       THEN /\ nodeMap' = [nodeMap EXCEPT ![n].vCPU.Reserved = @ + 1]
            /\ audit' = [audit EXCEPT !.applied = @ + 1, !.fault = faultAfterUnlock]
       ELSE /\ audit' = [audit EXCEPT !.fault = faultAfterUnlock]
            /\ UNCHANGED nodeMap
    /\ lock' = Free
    /\ proc' = [proc EXCEPT ![c] = IdleProc]
    /\ UNCHANGED <<pstate, lockRest>>

NextLock ==
    \/ \E c \in Callers, n \in Nodes : Enter(c, n)
    \/ \E c \in Callers, n \in Nodes : lookup(c, n)
    \/ \E c \in Callers : fetchFailed(c)
    \/ \E c \in Callers, status \in Statuses : fetched(c, status)
    \/ \E c \in Callers : relock(c)
    \/ \E c \in Callers : deferredLock(c)
    \/ \E c \in Callers, n \in Nodes : recheck(c, n)
    \/ \E c \in Callers : limitsError(c)
    \/ \E c \in Callers, n \in Nodes : install(c, n)
    \/ \E c \in Callers, n \in Nodes : finish(c, n)

\* as Init, with FallbackToAllocatable configured either way
InitLock ==
    /\ PluginEmpty
    /\ env \in Envs
    /\ lock = Free
    /\ proc = [c \in Callers |-> IdleProc]
    /\ audit = NoAudit
    /\ pstate \in {[NoMaxima EXCEPT !.FallbackToAllocatable = b] : b \in BOOLEAN}
    /\ slot = NoSlot
    /\ call = NoCall
    /\ books = NoBooks

SpecLock == InitLock /\ [][NextLock]_vars

(***************************************************************************)
(* One transitioner called directly                                        *)
(*                                                                         *)
(* slot holds the node slot and the pod slot a transitioner is bound to.   *)
(* The slots start as the books of a node with one pod of interest and the *)
(* rest of the node's pods taken together; the transitioner then takes one *)
(* call, or two in a row.  call keeps the last call: its arguments, the    *)
(* slots it was given, and the calls made before it.                       *)
(***************************************************************************)
MaxReserved == 5
MaxBuffer == 2

UnitNode == [Total |-> 8, System |-> 1]
Factors == {1, 2}
Amounts == 0 .. MaxReserved + 2
UnitMaxes == {2, 4, 6}
UnitMins == {1, 2}

\* what the other pods of the node hold: nothing, or 3 reserved of which at
\* most 1 is buffer, with or without pressure
UnitOthers ==
    {[Reserved |-> 0, Buffer |-> 0, CapacityPressure |-> 0]}
        \cup {[Reserved |-> 3, Buffer |-> b, CapacityPressure |-> c] : b \in 0..1, c \in 0..1}

UnitPods ==
    {[Reserved |-> r, Buffer |-> b, CapacityPressure |-> c, Min |-> 1, Max |-> m] :
        r \in 0..MaxReserved, b \in 0..MaxBuffer, c \in 0..1, m \in {4, 6}}

UnitSlots ==
    {[node |-> [Total |-> UnitNode.Total, System |-> UnitNode.System,
                Reserved |-> pod.Reserved + o.Reserved,
                Buffer |-> pod.Buffer + o.Buffer,
                CapacityPressure |-> pod.CapacityPressure + o.CapacityPressure,
                PressureAccountedFor |-> paf],
      pod |-> pod] :
        pod \in {x \in UnitPods : x.Buffer <= x.Reserved}, o \in UnitOthers, paf \in 0..1}

unitRest == <<nodeMap, podMap, otherPods, panicked, env, seen, verdict, snap, lockVars, books>>

\* no pod is placed while the transitioner is called on its own
NoWorkload == [vmPods |-> {}, otherPods |-> {}, usageChanges |-> {}, limits |-> {}]

InitUnit ==
    /\ PluginEmpty
    /\ env = NoWorkload
    /\ LockIdle
    /\ slot \in UnitSlots
    /\ call = NoCall
    /\ books = NoBooks

\* the calls of the agent's protocol, which come in sequences
Chained == {"handleLastPermit", "handleRequested", "handleUpdatedLimits"}

\* a transitioner that has panicked takes no further call; a second call
\* follows a call of the agent's protocol
MayCall ==
    IF call.op = "-" THEN TRUE
    ELSE call.earlier = 0 /\ ~call.panic /\ call.op \in Chained
Earlier == IF call.op = "-" THEN 0 ELSE call.earlier + 1

CallLastPermit(lastPermit) ==
    /\ MayCall
    /\ slot' = handleLastPermit(slot, lastPermit)
    /\ call' = [op |-> "handleLastPermit", earlier |-> Earlier, before |-> slot,
                amount |-> lastPermit, flag |-> FALSE, factor |-> 1, newMin |-> 0,
                panic |-> FALSE]
    /\ UNCHANGED unitRest

CallRequested(requested, startingMigration, factor) ==
    /\ MayCall
    /\ LET r == handleRequested(slot, requested, startingMigration, factor)
       IN /\ slot' = [node |-> r.node, pod |-> r.pod]
          /\ call' = [op |-> "handleRequested", earlier |-> Earlier, before |-> slot,
                      amount |-> requested, flag |-> startingMigration,
                      factor |-> factor, newMin |-> 0, panic |-> r.panic]
    /\ UNCHANGED unitRest

CallUpdatedLimits(receivedContact, newMin, newMax) ==
    /\ MayCall
    /\ slot' = handleUpdatedLimits(slot, receivedContact, newMin, newMax)
    /\ call' = [op |-> "handleUpdatedLimits", earlier |-> Earlier, before |-> slot,
                amount |-> newMax, flag |-> receivedContact, factor |-> 1,
                newMin |-> newMin, panic |-> FALSE]
    /\ UNCHANGED unitRest

\* the calls that take no amount record 0 for it
Made(op, flag, amount) ==
    [op |-> op, earlier |-> Earlier, before |-> slot, amount |-> amount, flag |-> flag,
     factor |-> 1, newMin |-> 0, panic |-> FALSE]

CallDeleted(migrating) ==
    /\ MayCall
    /\ slot' = [node |-> handleDeleted(slot, migrating), pod |-> slot.pod]
    /\ call' = Made("handleDeleted", migrating, 0)
    /\ UNCHANGED unitRest

CallNonAutoscalingUsageChange(newUsage) ==
    /\ MayCall
    /\ slot' = handleNonAutoscalingUsageChange(slot, newUsage)
    /\ call' = Made("handleNonAutoscalingUsageChange", FALSE, newUsage)
    /\ UNCHANGED unitRest

CallAutoscalingDisabled ==
    /\ MayCall
    /\ slot' = handleAutoscalingDisabled(slot)
    /\ call' = Made("handleAutoscalingDisabled", FALSE, 0)
    /\ UNCHANGED unitRest

CallStartMigration ==
    /\ MayCall
    /\ slot' = handleStartMigration(slot)
    /\ call' = Made("handleStartMigration", FALSE, 0)
    /\ UNCHANGED unitRest

NextUnit ==
    \/ \E lastPermit \in Amounts : CallLastPermit(lastPermit)
    \/ \E requested \in Amounts, startingMigration \in BOOLEAN, factor \in Factors :
           CallRequested(requested, startingMigration, factor)
    \/ \E receivedContact \in BOOLEAN, newMin \in UnitMins, newMax \in UnitMaxes :
           CallUpdatedLimits(receivedContact, newMin, newMax)
    \/ \E migrating \in BOOLEAN : CallDeleted(migrating)
    \/ \E newUsage \in Amounts : CallNonAutoscalingUsageChange(newUsage)
    \/ CallAutoscalingDisabled
    \/ CallStartMigration

SpecUnit == InitUnit /\ [][NextUnit]_vars

(***************************************************************************)
(* Deletions under the plugin lock                                         *)
(*                                                                         *)
(* The node holds pods that were placed before; two goroutines handle      *)
(* deletion events, possibly for the same pod.  A handler takes the lock   *)
(* and looks the pod up (pc "vmDeletion" or "podDeletion", got the name,   *)
(* err whether the lookup found nothing), runs the body of the handler on  *)
(* it, and unlocks on return.                                              *)
(***************************************************************************)
deletionRest == <<nodeMap, podMap, otherPods, panicked, env, seen, verdict, snap, pstate,
                  unitVars, books>>

\* the plugin after its node was hydrated, and after placements on it
Hydrated == [nodeMap |-> [n \in Nodes |-> newNodeState], podMap |-> [x \in {} |-> 0],
             otherPods |-> [x \in {} |-> 0], seen |-> {}]

withVM(st, p, n, using, max) ==
    LET node == st.nodeMap[n]
        led == [res \in Res |-> specLedger(res, using, max)]
        pod == [node |-> n, vCPU |-> led.vCPU, memSlots |-> led.memSlots,
                metrics |-> NoMetrics, mqIndex |-> -1, migrationState |-> FALSE,
                receivedContact |-> FALSE]
    IN [st EXCEPT
           !.nodeMap[n].vCPU.Reserved = Add16(@, led.vCPU.Reserved),
           !.nodeMap[n].vCPU.Buffer = Add16(@, led.vCPU.Buffer),
           !.nodeMap[n].memSlots.Reserved = Add16(@, led.memSlots.Reserved),
           !.nodeMap[n].memSlots.Buffer = Add16(@, led.memSlots.Buffer),
           !.nodeMap[n].pods = @ \cup {p},
           !.podMap = Put(@, p, pod),
           !.seen = @ \cup {p}]

withOther(st, o, n, shape) ==
    LET node == st.nodeMap[n]
        node1 == withOtherResources(node, addPod(node.otherResources, shape).state)
    IN [st EXCEPT
           !.nodeMap[n] = [node1 EXCEPT !.otherPods = @ \cup {o}],
           !.otherPods = Put(@, o, [node |-> n, resources |-> shape]),
           !.seen = @ \cup {o}]

Fits(st) ==
    \A n \in Nodes, res \in Res : st.nodeMap[n][res].Reserved <= st.nodeMap[n][res].Total

\* vm1 alone, or with vm2, or with the non-VM pod o1
DeletionStarts ==
    LET one == {withVM(Hydrated, "vm1", n, um[1], um[2]) :
                    n \in Nodes, um \in {x \in Units \X Units : x[1] <= x[2]}}
        two == {withVM(st, "vm2", n, 1, 1) : st \in one, n \in Nodes}
        mixed == {withOther(st, "o1", n, shape) :
                    st \in one, n \in Nodes, shape \in OtherShapes}
    IN {st \in one \cup two \cup mixed : Fits(st)}

InitDeletion ==
    /\ \E st \in DeletionStarts :
          /\ nodeMap = st.nodeMap
          /\ podMap = st.podMap
          /\ otherPods = st.otherPods
          /\ seen = st.seen
    /\ panicked = "none"
    /\ env = NoWorkload
    /\ verdict = NoVerdict
    /\ snap = NoSnaps
    /\ LockIdle
    /\ slot = NoSlot
    /\ call = NoCall
    /\ books = NoBooks

\* e.state.lock.Lock(), then the lookup in podMap or otherPods
StartDeletion(c, kind, name) ==
    /\ panicked = "none"
    /\ proc[c].pc = "idle"
    /\ CanLock(c)
    /\ lock' = c
    /\ audit' = [audit EXCEPT !.fault = faultAfterLock(c)]
    /\ proc' = [proc EXCEPT ![c] =
           [pc |-> kind, locked |-> TRUE, got |-> name,
            err |-> IF kind = "vmDeletion" THEN name \notin DOMAIN podMap
                    ELSE name \notin DOMAIN otherPods,
            status |-> NoStatus]]
    /\ UNCHANGED deletionRest

\* the goroutine that holds the lock runs the body of its handler
DeletionBody(c) ==
    /\ lock = c
    /\ \/ proc[c].pc = "vmDeletion" /\ handleVMDeletion(proc[c].got)
       \/ proc[c].pc = "podDeletion" /\ handlePodDeletion(proc[c].got)

\* the handler returns, and its deferred e.state.lock.Unlock() runs
EndDeletion(c) ==
    /\ panicked = "none"
    /\ \/ proc[c].pc = "vmDeletion" /\ proc[c].got \notin DOMAIN podMap
       \/ proc[c].pc = "podDeletion" /\ proc[c].got \notin DOMAIN otherPods
    /\ lock' = Free
    /\ audit' = [audit EXCEPT !.fault = faultAfterUnlock]
    /\ proc' = [proc EXCEPT ![c] = IdleProc]
    /\ UNCHANGED deletionRest

NextDeletion ==
    \/ \E c \in Callers, p \in VMPods : StartDeletion(c, "vmDeletion", p)
    \/ \E c \in Callers, o \in OtherPods : StartDeletion(c, "podDeletion", o)
    \/ \E c \in Callers : DeletionBody(c)
    \/ \E c \in Callers : EndDeletion(c)

SpecDeletion == InitDeletion /\ [][NextDeletion]_vars

(***************************************************************************)
(* The non-VM resource books called directly                               *)
(*                                                                         *)
(* A nodeOtherResourceState starts empty, as in a node that has just been  *)
(* hydrated; addPod and subPod are applied to it with pod resources drawn  *)
(* from RawShapes, and the hydration arithmetic is applied to node         *)
(* capacities drawn from Capacities.                                       *)
(***************************************************************************)
MaxCalls == 4

\* pod resources: the small shapes, a pod of 40000 cores and a pod of 40000
\* memory slots
RawShapes ==
    OtherShapes \cup {[rawCpu |-> 40000 * 1000, rawMemory |-> 2],
                      [rawCpu |-> 500, rawMemory |-> 40000 * MemSlotSize]}

\* node capacities (millicores, bytes): a small node, a node of 70000 cores
\* and a node of 70000 memory slots
Capacities ==
    {[cpu |-> 3500, mem |-> 13],
     [cpu |-> 70000 * 1000, mem |-> 13],
     [cpu |-> 3500, mem |-> 70000 * MemSlotSize]}

booksRest == <<nodeMap, podMap, otherPods, panicked, env, seen, verdict, snap,
               lockVars, unitVars>>

InitBooks ==
    /\ PluginEmpty
    /\ env = NoWorkload
    /\ LockIdle
    /\ slot = NoSlot
    /\ call = NoCall
    /\ books = NoBooks

\* a goroutine that has panicked makes no further call
MayCallBooks == books.calls < MaxCalls /\ ~books.panic

Applied(op, p, result) ==
    [books EXCEPT !.r = IF result.panic THEN books.r ELSE result.state,
                  !.op = op, !.given = books.r, !.arg = p,
                  !.panic = result.panic, !.calls = @ + 1]

CallAddPod(p) ==
    /\ MayCallBooks
    /\ books' = Applied("addPod", p, addPod(books.r, p))
    /\ UNCHANGED booksRest

CallSubPod(p) ==
    /\ MayCallBooks
    /\ books' = Applied("subPod", p, subPod(books.r, p))
    /\ UNCHANGED booksRest

FetchTotals(q) ==
    /\ MayCallBooks
    /\ books' = [books EXCEPT !.op = "getOrFetchNodeState", !.given = books.r,
                              !.totals = nodeTotals(q.cpu, q.mem), !.calls = @ + 1]
    /\ UNCHANGED booksRest

NextBooks ==
    \/ \E p \in RawShapes : CallAddPod(p)
    \/ \E p \in RawShapes : CallSubPod(p)
    \/ \E q \in Capacities : FetchTotals(q)

SpecBooks == InitBooks /\ [][NextBooks]_vars

(***************************************************************************)
(* Sums over the pods of a node                                            *)
(***************************************************************************)
RECURSIVE SumOf(_, _)
SumOf(f, S) ==
    IF S = {} THEN 0
    ELSE LET x == CHOOSE y \in S : TRUE IN f[x] + SumOf(f, S \ {x})

\* the pods of node n that the plugin still knows
PodsOn(n) == nodeMap[n].pods \cap DOMAIN podMap
PodSum(n, res, field) == SumOf([p \in PodsOn(n) |-> podMap[p][res][field]], PodsOn(n))
OtherReserved(n, res) ==
    IF res = "vCPU" THEN nodeMap[n].otherResources.reservedCpu
    ELSE nodeMap[n].otherResources.reservedMemSlots

(***************************************************************************)
(* C1: for each node and each resource, node.Reserved is the sum of the    *)
(* Reserved of the VM pods on the node plus the rounded-up reserved amount *)
(* of its non-VM pods.                                                     *)
(***************************************************************************)
ConservationReserved ==
    \A n \in DOMAIN nodeMap, res \in Res :
        nodeMap[n][res].Reserved = PodSum(n, res, "Reserved") + OtherReserved(n, res)

(***************************************************************************)
(* C2: for each node and each resource, node.Reserved <= node.Total.       *)
(***************************************************************************)
NoHardOvercommit ==
    \A n \in DOMAIN nodeMap, res \in Res : nodeMap[n][res].Reserved <= nodeMap[n][res].Total

(***************************************************************************)
(* C3: for each node and each resource, node.CapacityPressure is the sum   *)
(* of the CapacityPressure of the pods on the node.                        *)
(***************************************************************************)
ConservationCapacityPressure ==
    \A n \in DOMAIN nodeMap, res \in Res :
        nodeMap[n][res].CapacityPressure = PodSum(n, res, "CapacityPressure")

\* on a node of two pods, a pod that held capacity pressure has just had an
\* increase capped and holds its new pressure
PressureReplaced ==
    \E res \in Res :
        /\ verdict.pod \in DOMAIN podMap
        /\ verdict.path[res] = "capped"
        /\ verdict.hadPressure[res]
        /\ podMap[verdict.pod][res].CapacityPressure > 0
        /\ Cardinality(PodsOn(podMap[verdict.pod].node)) = 2

(***************************************************************************)
(* C4: for each node and each resource, node.Buffer is the sum of the      *)
(* Buffer of the pods on the node.                                         *)
(***************************************************************************)
ConservationBuffer ==
    \A n \in DOMAIN nodeMap, res \in Res :
        nodeMap[n][res].Buffer = PodSum(n, res, "Buffer")

\* two pods of one node hold a buffer at once
BufferOfTwoPods ==
    \E n \in DOMAIN nodeMap, res \in Res :
        \A p \in VMPods : p \in PodsOn(n) /\ podMap[p][res].Buffer > 0

(***************************************************************************)
(* Agent requests, step by step: a step that leaves verdict naming a pod   *)
(* is an agent request of that pod; Before and After are the slots         *)
(* handleRequested was bound to, before and after the call.                *)
(***************************************************************************)
Requested(p) == verdict'.pod = p /\ panicked' = "none" /\ p \in DOMAIN podMap
Before(p, res) == St(nodeMap[podMap[p].node], podMap[p], res)
After(p, res) == [node |-> nodeMap'[podMap[p].node][res], pod |-> podMap'[p][res]]

(***************************************************************************)
(* C5: a handleRequested call that is not starting a migration and asks    *)
(* for more than pod.Reserved changes pod.Reserved by a non-negative       *)
(* multiple of factor, whether the increase is capped or granted in full.  *)
(***************************************************************************)
QuantisedIncrease ==
    [][\A p \in VMPods, res \in Res :
          Requested(p) /\ verdict'.path[res] \in {"capped", "full"}
          => LET delta == After(p, res).pod.Reserved - Before(p, res).pod.Reserved
             IN delta >= 0 /\ delta % ComputeUnit[res] = 0]_vars

(***************************************************************************)
(* C6: handleRequested with requested = pod.Reserved leaves Reserved,      *)
(* Buffer, PressureAccountedFor, Total, Min and Max of node and pod        *)
(* unchanged; it only sets pod.CapacityPressure to 0 and takes the pod's   *)
(* previous CapacityPressure off node.CapacityPressure.                    *)
(***************************************************************************)
PressureCleared(b, a) ==
    /\ a.pod.CapacityPressure = 0
    /\ a.node.CapacityPressure = b.node.CapacityPressure - b.pod.CapacityPressure
    /\ a.pod.Reserved = b.pod.Reserved
    /\ a.node.Reserved = b.node.Reserved
    /\ a.node.PressureAccountedFor = b.node.PressureAccountedFor
    /\ a.node.Total = b.node.Total
    /\ a.pod.Min = b.pod.Min
    /\ a.pod.Max = b.pod.Max

IdempotentNotification ==
    [][\A p \in VMPods, res \in Res :
          Requested(p) /\ verdict'.path[res] = "same"
          => /\ PressureCleared(Before(p, res), After(p, res))
             /\ After(p, res).pod.Buffer = Before(p, res).pod.Buffer
             /\ After(p, res).node.Buffer = Before(p, res).node.Buffer]_vars

(***************************************************************************)
(* C6, amended: handleRequested with requested = pod.Reserved leaves       *)
(* Reserved, PressureAccountedFor, Total, Min and Max unchanged; it sets   *)
(* pod.CapacityPressure and pod.Buffer to 0 and takes their previous       *)
(* values off node.CapacityPressure and node.Buffer.                       *)
(***************************************************************************)
NotificationClearsPressureAndBuffer ==
    [][\A p \in VMPods, res \in Res :
          Requested(p) /\ verdict'.path[res] = "same"
          => /\ PressureCleared(Before(p, res), After(p, res))
             /\ After(p, res).pod.Buffer = 0
             /\ After(p, res).node.Buffer =
                    Before(p, res).node.Buffer - Before(p, res).pod.Buffer]_vars

\* a request for exactly pod.Reserved has just been processed for a pod that
\* held a buffer, next to another pod that keeps its own
NotifiedWithBuffer ==
    \E res \in Res :
        /\ verdict.pod \in DOMAIN podMap
        /\ verdict.path[res] = "same"
        /\ verdict.hadBuffer[res]
        /\ nodeMap[podMap[verdict.pod].node][res].Buffer > 0

(***************************************************************************)
(* C7: placing a VM pod, starting its migration and deleting it restores   *)
(* node.Reserved, node.Buffer and node.CapacityPressure to their values    *)
(* from before the placement and node.PressureAccountedFor to its value    *)
(* from just before the migration started, for CPU and for memory.         *)
(***************************************************************************)
RoundTripMigrateDelete ==
    \A p \in VMPods :
        snap[p].phase = "deletedMigrating"
        => \A res \in Res :
              LET now == nodeMap[snap[p].node][res]
                  pre == snap[p].pre[res]
              IN /\ now.Reserved = pre.Reserved
                 /\ now.Buffer = pre.Buffer
                 /\ now.CapacityPressure = pre.CapacityPressure
                 /\ now.PressureAccountedFor = snap[p].paf[res]

(***************************************************************************)
(* C8: placing a pod and deleting it, with nothing but agent requests of   *)
(* the pod in between, restores the node's ledgers and non-VM sums to      *)
(* their values from before the placement.                                 *)
(***************************************************************************)
RoundTripPlaceDelete ==
    \A p \in AllPods :
        snap[p].phase = "deleted" => Books(nodeMap[snap[p].node]) = snap[p].pre

\* a VM pod was placed next to another pod, had agent requests processed and
\* was deleted
DeletedAfterRequests ==
    \E p \in VMPods :
        /\ snap[p].phase = "deleted"
        /\ snap[p].contact
        /\ snap[p].pre.vCPU.Reserved > 0

(***************************************************************************)
(* C9: a migrating pod is in no node's migration queue.                    *)
(***************************************************************************)
MigrationExclusion ==
    \A p \in DOMAIN podMap :
        currentlyMigrating(podMap[p]) => \A n \in DOMAIN nodeMap : ~InQueue(nodeMap[n].mq, p)

\* a migrating pod has just reported metrics while the other pod of its
\* node is queued
MigratingPodReported ==
    \E p \in DOMAIN podMap :
        /\ currentlyMigrating(podMap[p])
        /\ verdict.pod = p
        /\ podMap[p].metrics # NoMetrics
        /\ nodeMap[podMap[p].node].mq # <<>>

(***************************************************************************)
(* C10: pod.mqIndex is -1 iff the pod has no metrics or is migrating;      *)
(* otherwise the pod is at position mqIndex of its own node's queue; and   *)
(* every queue slot holds a pod of podMap.                                 *)
(***************************************************************************)
QueueIndex ==
    /\ \A p \in DOMAIN podMap :
          LET pod == podMap[p]
              q == nodeMap[pod.node].mq
          IN /\ pod.mqIndex = -1 <=> (pod.metrics = NoMetrics \/ currentlyMigrating(pod))
             /\ pod.mqIndex # -1 =>
                   /\ pod.mqIndex + 1 \in DOMAIN q
                   /\ q[pod.mqIndex + 1] = p
    /\ \A n \in DOMAIN nodeMap :
          \A i \in DOMAIN nodeMap[n].mq : nodeMap[n].mq[i] \in DOMAIN podMap

\* two pods are queued, the second slot holding the pod placed first, and a
\* pod that was queued has been deleted
QueueOfTwo ==
    \E n \in DOMAIN nodeMap :
        /\ Len(nodeMap[n].mq) = 2
        /\ podMap[nodeMap[n].mq[2]].mqIndex = 1

HoldsLock == {"entered", "recheck", "build", "returned"}

(***************************************************************************)
(* C11: getOrFetchNodeState, entered with the mutex held, returns with the *)
(* mutex held on every return path (cached hit, failed fetch, entry found  *)
(* on the second lookup, limits error, success); it never locks a mutex    *)
(* its goroutine holds nor unlocks one that is not held; and whoever holds *)
(* the mutex is at a step that does not wait, so no goroutine waits for    *)
(* ever.                                                                   *)
(***************************************************************************)
LockHeldOnReturn ==
    /\ audit.fault = "none"
    /\ \A c \in Callers : proc[c].pc \in HoldsLock <=> lock = c
    /\ lock = Free \/ lock \in Callers

\* one goroutine has come back from a failed fetch through the deferred
\* Lock and holds the mutex, while the other waits for it
ErrorReturnHoldsLock ==
    \E c, d \in Callers :
        /\ proc[c].pc = "returned" /\ proc[c].err /\ ~proc[c].locked
        /\ lock = c
        /\ proc[d].pc \in {"relock", "deferred"}

(***************************************************************************)
(* C12: of the goroutines that ask for the same unknown node at the same   *)
(* time at most one installs an entry; the entry of nodeMap is never       *)
(* replaced; every goroutine that succeeds gets that entry; and the entry  *)
(* carries every reservation made on it, also those made while another     *)
(* hydration was still under way.                                          *)
(***************************************************************************)
SingleEntry ==
    /\ audit.installs <= 1
    /\ audit.installs = 1 <=> DOMAIN nodeMap # {}
    /\ \A c \in Callers :
          proc[c].pc = "returned" /\ ~proc[c].err =>
              /\ proc[c].got # NoEntry
              /\ proc[c].got = audit.owner
    /\ \A n \in DOMAIN nodeMap : nodeMap[n].vCPU.Reserved = audit.applied

\* a goroutine that fetched the node finds, on its second lookup, the entry
\* another goroutine installed and already reserved on
LostRaceFindsEntry ==
    \E c \in Callers :
        /\ proc[c].pc = "returned" /\ proc[c].locked /\ ~proc[c].err
        /\ proc[c].got # c
        /\ audit.applied > 0

(***************************************************************************)
(* Direct calls: what the last call was, and the slots it was given        *)
(***************************************************************************)
Called(op) == call.op = op /\ ~call.panic
Given == call.before

(***************************************************************************)
(* C13: an increase that is not part of a migration is granted at most up  *)
(* to totalReservable - node.Reserved, where totalReservable is the node's *)
(* Total less its System share: with Total 8, System 1 and 6 reserved, a   *)
(* pod at 3 asking for 6 gets 1 more.                                      *)
(***************************************************************************)
IncreaseWithinReservable ==
    Called("handleRequested") /\ ~call.flag /\ call.amount > Given.pod.Reserved =>
        Sub16(slot.pod.Reserved, Given.pod.Reserved)
            <= SaturatingSub(Given.node.Total - Given.node.System, Given.node.Reserved)

(***************************************************************************)
(* C14: handleLastPermit with lastPermit <= pod.Reserved lowers            *)
(* pod.Reserved to lastPermit and node.Reserved by the same amount, sets   *)
(* pod.Buffer to 0 and lowers node.Buffer by the buffer the pod had, and   *)
(* changes no other field of the pod or the node.                          *)
(***************************************************************************)
LastPermitLowers ==
    Called("handleLastPermit") /\ call.amount <= Given.pod.Reserved =>
        /\ slot.pod = [Given.pod EXCEPT !.Reserved = call.amount, !.Buffer = 0]
        /\ slot.node = [Given.node EXCEPT
                            !.Reserved = @ - (Given.pod.Reserved - call.amount),
                            !.Buffer = @ - Given.pod.Buffer]

\* a pod at Reserved 5, Buffer 2 with a last permit of 3 ends at Reserved 3,
\* Buffer 0, and the node has 2 less of each
LastPermitOfThree ==
    /\ Called("handleLastPermit") /\ call.amount = 3
    /\ Given.pod.Reserved = 5 /\ Given.pod.Buffer = 2
    /\ slot.pod.Reserved = 3 /\ slot.pod.Buffer = 0
    /\ slot.node.Reserved = Given.node.Reserved - 2
    /\ slot.node.Buffer = Given.node.Buffer - 2

(***************************************************************************)
(* C15: handleLastPermit with lastPermit > pod.Reserved changes no field   *)
(* of the node or the pod.                                                 *)
(***************************************************************************)
LastPermitAboveReserved ==
    Called("handleLastPermit") /\ call.amount > Given.pod.Reserved => slot = Given

\* a last permit above the reservation of a pod that holds buffer
StalePermitIgnored ==
    /\ Called("handleLastPermit") /\ call.amount > Given.pod.Reserved
    /\ Given.pod.Buffer > 0
    /\ slot = Given

(***************************************************************************)
(* C16: a pod that has started its migration and then asks for more than   *)
(* it has reserved is granted nothing: pod.Reserved and node.Reserved stay *)
(* as they were, pod.CapacityPressure becomes requested - pod.Reserved,    *)
(* the pod is in no migration queue, and node.PressureAccountedFor stands  *)
(* higher than before the migration started by exactly pod.Reserved.       *)
(***************************************************************************)
StartMigrationSequence ==
    [][\A p \in VMPods, units \in Units, load \in Loads, res \in Res :
          /\ p \in DOMAIN podMap
          /\ snap[p].phase = "migrating"
          /\ AgentRequest(p, units, load)
          /\ Requested(p)
          /\ units * ComputeUnit[res] > Before(p, res).pod.Reserved
          => LET b == Before(p, res)
                 a == After(p, res)
             IN /\ a.pod.Reserved = b.pod.Reserved
                /\ a.node.Reserved = b.node.Reserved
                /\ a.pod.CapacityPressure = units * ComputeUnit[res] - b.pod.Reserved
                /\ ~InQueue(nodeMap'[podMap[p].node].mq, p)
                /\ a.node.PressureAccountedFor = Add16(snap[p].paf[res], b.pod.Reserved)]_vars

(***************************************************************************)
(* C17: handleUpdatedLimits without earlier contact and with a new maximum *)
(* sets pod.Reserved to max(newMax, using) and pod.Buffer to               *)
(* pod.Reserved - using, where using = old Reserved - old Buffer, so that  *)
(* using stays what it was and the reservation is never below it; the      *)
(* node's Reserved and Buffer change by what the pod's changed by.         *)
(***************************************************************************)
UpdatedLimitsRebuffers ==
    Called("handleUpdatedLimits") /\ ~call.flag /\ call.amount # Given.pod.Max =>
        LET using == Given.pod.Reserved - Given.pod.Buffer
        IN /\ slot.pod.Reserved = Max(call.amount, using)
           /\ slot.pod.Buffer = slot.pod.Reserved - using
           /\ slot.pod.Reserved - slot.pod.Buffer = using
           /\ slot.pod.Reserved >= using
           /\ slot.node.Reserved - Given.node.Reserved
                  = slot.pod.Reserved - Given.pod.Reserved
           /\ slot.node.Buffer - Given.node.Buffer = slot.pod.Buffer - Given.pod.Buffer

\* a pod at Reserved 4, Buffer 0 whose maximum went to 2 and now goes to 6:
\* Reserved 6, Buffer 2, and the node has 2 more of each
MaximumLoweredThenRaised ==
    /\ Called("handleUpdatedLimits") /\ ~call.flag /\ call.amount = 6
    /\ call.earlier = 1
    /\ Given.pod.Max = 2 /\ Given.pod.Reserved = 4 /\ Given.pod.Buffer = 0
    /\ slot.pod.Reserved = 6 /\ slot.pod.Buffer = 2
    /\ slot.node.Reserved = Given.node.Reserved + 2
    /\ slot.node.Buffer = Given.node.Buffer + 2

(***************************************************************************)
(* C18: tooMuchPressure is false for every node whose Reserved is at or    *)
(* below its Watermark for CPU and for memory, also when Reserved equals   *)
(* the Watermark, whatever CapacityPressure and PressureAccountedFor are.  *)
(***************************************************************************)
NoPressureUpToWatermark ==
    \A n \in DOMAIN nodeMap :
        /\ nodeMap[n].vCPU.Reserved <= nodeMap[n].vCPU.Watermark
        /\ nodeMap[n].memSlots.Reserved <= nodeMap[n].memSlots.Watermark
        => ~tooMuchPressure(nodeMap[n])

(***************************************************************************)
(* C19: in every reachable state every pod has Buffer <= Reserved for      *)
(* each resource, so that using = Reserved - Buffer never wraps.           *)
(***************************************************************************)
BufferWithinReserved ==
    \A p \in DOMAIN podMap, res \in Res : podMap[p][res].Buffer <= podMap[p][res].Reserved

StartsMigration(p) ==
    /\ p \in DOMAIN podMap /\ p \in DOMAIN podMap'
    /\ ~currentlyMigrating(podMap[p])
    /\ currentlyMigrating(podMap'[p])

(***************************************************************************)
(* C20: a pod has at most one migration at a time.  A pod that is          *)
(* migrating stays so until it is deleted, and startMigration on it        *)
(* changes nothing: whenever a node's PressureAccountedFor changes in a    *)
(* step that deletes no pod, a pod of that node that was not migrating has *)
(* started its migration in that step, and the pods that were migrating    *)
(* already are as they were.  So PressureAccountedFor goes up at most once *)
(* per pod between its placement and its deletion.                         *)
(***************************************************************************)
OneMigrationPerPod ==
    [][/\ \A p \in DOMAIN podMap :
             currentlyMigrating(podMap[p]) /\ p \in DOMAIN podMap'
                 => currentlyMigrating(podMap'[p])
       /\ \A n \in DOMAIN nodeMap :
             /\ n \in DOMAIN nodeMap'
             /\ DOMAIN podMap' = DOMAIN podMap
             /\ Pafs(nodeMap'[n]) # Pafs(nodeMap[n])
             => /\ \E p \in DOMAIN podMap : podMap[p].node = n /\ StartsMigration(p)
                /\ \A p \in DOMAIN podMap :
                      currentlyMigrating(podMap[p]) => podMap'[p] = podMap[p]]_vars

\* a pod's migration has just started: it is out of the queue, and the
\* node's CPU pressure accounted for stands at what the pod holds
MigrationStartedOnce ==
    \E p \in DOMAIN podMap :
        /\ currentlyMigrating(podMap[p])
        /\ snap[p].phase = "migrating"
        /\ podMap[p].mqIndex = -1
        /\ podMap[p].vCPU.Reserved > 0
        /\ nodeMap[podMap[p].node].vCPU.PressureAccountedFor
               = Add16(snap[p].paf.vCPU,
                       Add16(podMap[p].vCPU.Reserved, podMap[p].vCPU.CapacityPressure))

\* goroutine c is inside a deletion handler
Deleting(c) == proc[c].pc \in {"vmDeletion", "podDeletion"}

(***************************************************************************)
(* C21: a deletion of a pod the plugin does not know (a second deletion of *)
(* the same pod among them) is a warning and changes nothing, and the lock *)
(* is released on return.  So whatever deletions two goroutines handle,    *)
(* nothing has failed, the lock is held exactly by a goroutine inside a    *)
(* handler, and each node's Reserved and Buffer are the sums over the pods *)
(* it still holds: a pod's resources have been subtracted once.            *)
(***************************************************************************)
DeletedOnce ==
    /\ panicked = "none"
    /\ audit.fault = "none"
    /\ \A c \in Callers : Deleting(c) <=> lock = c
    /\ \A n \in DOMAIN nodeMap :
          /\ nodeMap[n].pods = {p \in DOMAIN podMap : podMap[p].node = n}
          /\ nodeMap[n].otherPods = {o \in DOMAIN otherPods : otherPods[o].node = n}
          /\ nodeMap[n].mq = <<>>
          /\ \A res \in Res :
                /\ nodeMap[n][res].Reserved
                       = PodSum(n, res, "Reserved") + OtherReserved(n, res)
                /\ nodeMap[n][res].Buffer = PodSum(n, res, "Buffer")
    /\ \A n \in DOMAIN nodeMap :
          nodeMap[n].otherPods = {} =>
              nodeMap[n].otherResources.rawCpu = 0 /\ nodeMap[n].otherResources.rawMemory = 0

\* a goroutine holds the lock in a second deletion of a VM pod: the lookup
\* found nothing, and another pod is still on the node
SecondDeletionFindsNothing ==
    \E c \in Callers :
        /\ proc[c].pc = "vmDeletion" /\ proc[c].err
        /\ lock = c
        /\ proc[c].got \in seen
        /\ proc[c].got \notin DOMAIN podMap
        /\ DOMAIN podMap # {} \/ DOMAIN otherPods # {}

\* the pods of node n whose migration is under way
MigratingOn(n) == {p \in PodsOn(n) : currentlyMigrating(podMap[p])}

(***************************************************************************)
(* C22: in every reachable state, for each node and each resource,         *)
(* PressureAccountedFor is the sum of Reserved + CapacityPressure over the *)
(* pods of the node that are migrating: 0 when none is, never wrapped.     *)
(***************************************************************************)
PressureAccountedForIsSum ==
    \A n \in DOMAIN nodeMap, res \in Res :
        nodeMap[n][res].PressureAccountedFor
            = SumOf([p \in MigratingOn(n) |->
                        podMap[p][res].Reserved + podMap[p][res].CapacityPressure],
                    MigratingOn(n))

(***************************************************************************)
(* C23: on a node with a resource above its watermark, tooMuchPressure is  *)
(* true iff max(0, Reserved - Watermark) + CapacityPressure exceeds        *)
(* PressureAccountedFor for CPU or for memory; a resource below its        *)
(* watermark counts with logical pressure 0.                               *)
(***************************************************************************)
PressureAboveWatermark ==
    \A n \in DOMAIN nodeMap :
        LET node == nodeMap[n]
            logical(res) == Max(0, node[res].Reserved - node[res].Watermark)
        IN (\E res \in Res : node[res].Reserved > node[res].Watermark)
           => (tooMuchPressure(node)
               <=> \E res \in Res :
                      logical(res) + node[res].CapacityPressure
                          > node[res].PressureAccountedFor)

(***************************************************************************)
(* C24: remainingReservableCPU and remainingReservableMemSlots are         *)
(* max(0, (Total - System) - Reserved): 0, not a wrapped value, on a node  *)
(* whose Reserved is above Total - System.                                 *)
(***************************************************************************)
RemainingReservableSaturates ==
    \A n \in DOMAIN nodeMap, res \in Res :
        remainingReservable(nodeMap[n], res)
            = Max(0, (nodeMap[n][res].Total - nodeMap[n][res].System)
                         - nodeMap[n][res].Reserved)

(***************************************************************************)
(* C25: handleRequested never raises node.Reserved above node.Total.  On a *)
(* node with Reserved <= Total, Reserved is <= Total after the call; on a  *)
(* node with Reserved > Total nothing is granted and node.Reserved does    *)
(* not grow, whatever is requested and whatever the factor.                *)
(***************************************************************************)
RequestedWithinTotal ==
    call.op = "handleRequested" =>
        /\ Given.node.Reserved <= Given.node.Total
               => slot.node.Reserved <= slot.node.Total
        /\ Given.node.Reserved > Given.node.Total
               => /\ slot.node.Reserved <= Given.node.Reserved
                  /\ slot.pod.Reserved <= Given.pod.Reserved

\* a pod asks for more on a node that is reserved beyond its Total: nothing
\* is granted and the whole increase becomes capacity pressure
NothingGrantedBeyondTotal ==
    /\ Called("handleRequested") /\ ~call.flag
    /\ Given.node.Reserved > Given.node.Total
    /\ call.amount > Given.pod.Reserved
    /\ slot.node.Reserved = Given.node.Reserved
    /\ slot.pod.Reserved = Given.pod.Reserved
    /\ slot.pod.CapacityPressure = call.amount - Given.pod.Reserved

(***************************************************************************)
(* C26: the start of a migration updates the CPU and the memory ledgers    *)
(* together.  In the step in which a pod starts migrating, for vCPU and    *)
(* for memSlots alike, the pod's Buffer and CapacityPressure are cleared   *)
(* and the node's PressureAccountedFor has grown by what the pod holds     *)
(* reserved once its buffer is gone.                                       *)
(***************************************************************************)
MigrationStartsBothLedgers ==
    [][\A p \in VMPods, res \in Res :
          StartsMigration(p) =>
              LET n == podMap[p].node
              IN /\ podMap'[p][res].Buffer = 0
                 /\ podMap'[p][res].CapacityPressure = 0
                 /\ nodeMap'[n][res].PressureAccountedFor =
                        Add16(nodeMap[n][res].PressureAccountedFor,
                              podMap'[p][res].Reserved)]_vars

AllContacted(n) == \A p \in nodeMap[n].pods : podMap[p].receivedContact

(***************************************************************************)
(* C28: buffers converge to zero on contact.  Every agent request that     *)
(* handleRequested answers leaves pod.Buffer = 0 and node.Buffer lower by  *)
(* the pod's previous Buffer; a pod that has had contact holds no buffer,  *)
(* and a node all of whose pods have had contact has Buffer = 0, also      *)
(* after further agent requests and limit updates.                         *)
(***************************************************************************)
BuffersConvergeOnContact ==
    /\ [](\A n \in DOMAIN nodeMap, res \in Res :
            /\ \A p \in nodeMap[n].pods :
                   podMap[p].receivedContact => podMap[p][res].Buffer = 0
            /\ AllContacted(n) => nodeMap[n][res].Buffer = 0)
    /\ [][\A p \in VMPods, res \in Res :
             Requested(p) =>
                 /\ After(p, res).pod.Buffer = 0
                 /\ After(p, res).node.Buffer =
                        Sub16(Before(p, res).node.Buffer, Before(p, res).pod.Buffer)]_vars

\* two pods share a node, both have had contact, the one that spoke last held
\* a buffer until then, and the node's buffer is gone
NodeBufferGone ==
    \E n \in DOMAIN nodeMap, res \in Res :
        /\ Cardinality(nodeMap[n].pods) = 2
        /\ AllContacted(n)
        /\ verdict.pod \in nodeMap[n].pods
        /\ verdict.hadBuffer[res]
        /\ nodeMap[n][res].Buffer = 0

(***************************************************************************)
(* C29: a computed ledger quantity above 65535 is never stored truncated.  *)
(* After addPod or subPod has returned, reservedCpu is the rounded-up      *)
(* whole-core sum and reservedMemSlots the rounded-up slot count of the    *)
(* raw sums; after a hydration that returned no error, maxCPU is the       *)
(* node's whole-core count and totalSlots its memory-slot count.           *)
(***************************************************************************)
NoTruncatedLedger ==
    /\ books.op \in {"addPod", "subPod"} /\ ~books.panic =>
           /\ books.r.reservedCpu = MilliValue(books.r.rawCpu)
           /\ books.r.reservedMemSlots =
                  GoDiv(books.r.rawMemory + MemSlotSize - 1, MemSlotSize)
    /\ ~books.totals.err =>
           /\ books.totals.maxCPU = GoDiv(books.totals.cpuMilli, 1000)
           /\ books.totals.totalSlots = GoDiv(books.totals.memBytes, MemSlotSize)

(***************************************************************************)
(* C30: subPod panics and leaves the books as they were whenever the pod's *)
(* raw CPU is above the node's raw CPU sum or the pod's raw memory is      *)
(* above the node's raw memory sum; the raw sums are never negative.       *)
(***************************************************************************)
SubPodGuarded ==
    /\ books.op = "subPod"
           /\ (books.arg.rawCpu > books.given.rawCpu
                  \/ books.arg.rawMemory > books.given.rawMemory)
       => books.panic /\ books.r = books.given
    /\ books.r.rawCpu >= 0
    /\ books.r.rawMemory >= 0

\* what hydration is to go by for one resource, and whether it has anything
Offered(status, r) ==
    IF status.capacity[r] # Nil THEN status.capacity[r] ELSE status.allocatable[r]
Unavailable(status, r) ==
    /\ status.capacity[r] = Nil
    /\ status.allocatable[r] = Nil \/ ~pstate.FallbackToAllocatable

UsageChangeIsSignedDelta ==
    Called("handleNonAutoscalingUsageChange") =>
        /\ slot.pod = [Given.pod EXCEPT !.Reserved = call.amount]
        /\ slot.node = [Given.node EXCEPT
                            !.Reserved = IF call.amount < Given.pod.Reserved
                                         THEN @ - (Given.pod.Reserved - call.amount)
                                         ELSE @ + (call.amount - Given.pod.Reserved)]

\* a pod at Reserved 5 is reported to use 2: the node has 3 less reserved
UsageLowered ==
    /\ Called("handleNonAutoscalingUsageChange") /\ call.amount = 2
    /\ Given.pod.Reserved = 5
    /\ slot.pod.Reserved = 2
    /\ slot.node.Reserved = Given.node.Reserved - 3

(***************************************************************************)
(* C34: handleUpdatedLimits with newMin = pod.Min and newMax = pod.Max     *)
(* changes nothing.  With receivedContact = true, or with the maximum as   *)
(* it was, it replaces pod.Min and pod.Max and leaves every other field of *)
(* the pod and of the node unchanged.                                      *)
(***************************************************************************)
UpdatedLimitsFrame ==
    Called("handleUpdatedLimits") =>
        /\ call.newMin = Given.pod.Min /\ call.amount = Given.pod.Max => slot = Given
        /\ call.flag \/ call.amount = Given.pod.Max =>
               /\ slot.node = Given.node
               /\ slot.pod = [Given.pod EXCEPT !.Min = call.newMin, !.Max = call.amount]

\* only the minimum of a buffered pod that has had no contact is changed:
\* the pod keeps its reservation and its buffer
OnlyMinimumChanged ==
    /\ Called("handleUpdatedLimits") /\ ~call.flag
    /\ call.newMin # Given.pod.Min /\ call.amount = Given.pod.Max
    /\ Given.pod.Buffer > 0 /\ Given.pod.Reserved # Given.pod.Max
    /\ slot.pod.Min = call.newMin
    /\ slot.pod.Buffer = Given.pod.Buffer
    /\ slot.pod.Reserved = Given.pod.Reserved

(***************************************************************************)
(* C36: after every handleRequested call, on each of its paths (decrease   *)
(* or notification, increase denied while a migration starts, typical      *)
(* increase capped or not), pod.Reserved + pod.CapacityPressure is the     *)
(* requested amount: the pressure is the part of the request that was not  *)
(* granted, and pod.Reserved is never above what was requested.            *)
(***************************************************************************)
PressureIsUngrantedRequest ==
    Called("handleRequested") =>
        /\ slot.pod.Reserved + slot.pod.CapacityPressure = call.amount
        /\ slot.pod.Reserved <= call.amount

\* a request is granted in part: the rest of it stands as pressure
PartlyGranted ==
    /\ Called("handleRequested") /\ ~call.flag
    /\ slot.pod.Reserved > Given.pod.Reserved
    /\ slot.pod.CapacityPressure > 0
    /\ slot.pod.Reserved + slot.pod.CapacityPressure = call.amount

\* what a transitioner may change of a pod
Ledger(pm, p) ==
    [res \in Res |-> [Reserved |-> pm[p][res].Reserved, Buffer |-> pm[p][res].Buffer,
                      CapacityPressure |-> pm[p][res].CapacityPressure]]

(***************************************************************************)
(* C35: no transition changes a node's Total, System or Watermark, and a   *)
(* transition changes the ledger of the pod it is bound to only.  In every *)
(* step the three node amounts stay as they are; a step that places or     *)
(* deletes a pod leaves Reserved, Buffer and CapacityPressure of every     *)
(* other pod unchanged, and any other step changes them for one pod at     *)
(* most.                                                                   *)
(***************************************************************************)
TransitionFrame ==
    [][/\ \A n \in DOMAIN nodeMap \cap DOMAIN nodeMap', res \in Res :
              /\ nodeMap'[n][res].Total = nodeMap[n][res].Total
              /\ nodeMap'[n][res].System = nodeMap[n][res].System
              /\ nodeMap'[n][res].Watermark = nodeMap[n][res].Watermark
       /\ LET stay == DOMAIN podMap \cap DOMAIN podMap'
              changed == {p \in stay : Ledger(podMap', p) # Ledger(podMap, p)}
          IN IF DOMAIN podMap' # DOMAIN podMap
             THEN changed = {}
             ELSE Cardinality(changed) <= 1]_vars

\* a request of one pod has been granted in part on a node where another pod
\* stands under pressure of its own
NeighbourUnderPressure ==
    \E p, q \in DOMAIN podMap, res \in Res :
        /\ p # q /\ podMap[p].node = podMap[q].node
        /\ verdict.pod = p
        /\ verdict.path[res] \in {"capped", "full"}
        /\ podMap[q][res].CapacityPressure > 0

====
